---- MODULE Spec2Model ----
(***************************************************************************)
(* The habit store of useHabits (the reduce-capable revision): the         *)
(* collection of habits, the seven mutating commands and the pure queries  *)
(* over it.                                                                *)
(*                                                                         *)
(* Representation.                                                         *)
(*  - A date string "YYYY-MM-DD" is the number of its calendar day (days   *)
(*    since the epoch); an instant is a number of minutes since the epoch  *)
(*    (the source counts milliseconds; the scale is the only change).      *)
(*  - A string that is edited (a habit name) is a sequence of characters.  *)
(*  - An optional field is None (absent / undefined) or Some(v).           *)
(*  - A Record<string, T> is a function whose domain is the set of keys.   *)
(*  - The host's time zone is a fixed offset from UTC, in minutes; the     *)
(*    Date methods that read local time take it as an argument.            *)
(***************************************************************************)
EXTENDS Integers, Sequences, FiniteSets, TLC

VARIABLES
    habits,     \* the React state: the ordered collection of Habit records
    writes,     \* history: per habit, per date, the last write to that date
    outcome,    \* history: what became of the last command
    host,       \* the host's time zone: minutes that local time is ahead of UTC
    result,     \* the last query of the collection and what it returned
    storage,    \* localStorage: the item under the key "habits", and its history
    screen      \* HomeScreen: the pending delete confirmation and its timers

vars == <<habits, writes, outcome, host, result, storage, screen>>

----------------------------------------------------------------------------
\* Optional values and maps

None == {}

Some(v) == {v}

Get(o) == CHOOSE v \in o : TRUE

EmptyMap == [k \in {} |-> 0]

Has(m, k) == k \in DOMAIN m

\* { ...m, [k]: v }
MapSet(m, k, v) == [x \in (DOMAIN m) \cup {k} |-> IF x = k THEN v ELSE m[x]]

Max(a, b) == IF a >= b THEN a ELSE b

----------------------------------------------------------------------------
\* Bounds of the model

MaxHabits == 2

\* clicks on delete buttons in one behaviour of HomeScreen
MaxClicks == 4

MaxCount == 2

\* minutes per day; the source's 1000 * 60 * 60 * 24 in minutes
MinPerDay == 1440

----------------------------------------------------------------------------
\* Strings

WhitespaceChars == {" ", "\t"}

RECURSIVE TrimStart(_)
TrimStart(s) ==
    IF s # <<>> /\ Head(s) \in WhitespaceChars THEN TrimStart(Tail(s)) ELSE s

RECURSIVE TrimEnd(_)
TrimEnd(s) ==
    IF s # <<>> /\ s[Len(s)] \in WhitespaceChars
    THEN TrimEnd(SubSeq(s, 1, Len(s) - 1))
    ELSE s

\* String.prototype.trim
Trim(s) == TrimEnd(TrimStart(s))

----------------------------------------------------------------------------
\* Dates

\* new Date("YYYY-MM-DD").getTime(): UTC midnight of that calendar day
DateTime(d) == d * MinPerDay

\* instant.toISOString().split("T")[0] and createdAt.split("T")[0]: the UTC day
IsoDate(t) == t \div MinPerDay

\* getTodayString() when the clock reads t: new Date().toISOString().split("T")[0]
getTodayString(t) == IsoDate(t)

\* Math.round of the rational n / d (d > 0): halves round up (see IsTie for
\* the halves of a double computation)
Round(n, d) == (2 * n + d) \div (2 * d)

\* The fields of an instant t in the local time of a host whose clock is z
\* minutes ahead of UTC (Date.prototype.getDay, getDate, getMonth, getFullYear
\* read local time; the time zone has one offset all year)

\* the calendar day, counted from 1970-01-01, that t falls on in local time
LocalDay(t, z) == (t + z) \div MinPerDay

\* the year, month (0 = January) and day of the month of calendar day n
CivilDate(n) ==
    LET shifted == n + 719468
        era == shifted \div 146097
        dayOfEra == shifted - era * 146097
        yearOfEra == (dayOfEra - dayOfEra \div 1460 + dayOfEra \div 36524
                        - dayOfEra \div 146096) \div 365
        dayOfYear == dayOfEra - (365 * yearOfEra + yearOfEra \div 4 - yearOfEra \div 100)
        marchMonth == (5 * dayOfYear + 2) \div 153
        month == IF marchMonth < 10 THEN marchMonth + 3 ELSE marchMonth - 9
    IN  [year |-> yearOfEra + era * 400 + (IF month <= 2 THEN 1 ELSE 0),
         month |-> month - 1,
         date |-> dayOfYear - (153 * marchMonth + 2) \div 5 + 1]

\* 0 = Sunday; 1970-01-01 was a Thursday
getDay(t, z) == (LocalDay(t, z) + 4) % 7

getDate(t, z) == CivilDate(LocalDay(t, z)).date

getMonth(t, z) == CivilDate(LocalDay(t, z)).month

getFullYear(t, z) == CivilDate(LocalDay(t, z)).year

\* Date.prototype.setDate(n): the local day of the month becomes n (a day
\* outside the month carries into the neighbouring month), the local time of
\* day stays
setDate(t, z, n) == t + (n - getDate(t, z)) * MinPerDay

----------------------------------------------------------------------------
\* Pure functions over one habit

\* variant: the interpolated value returned without the clamp at targetValue
getReduceTargetForDate_unclamped(habit, d) ==
    IF habit.habitType # "reduce" \/ habit.reduceConfig = None
    THEN 0
    ELSE LET cfg == Get(habit.reduceConfig)
             createdDate == DateTime(IsoDate(habit.createdAt))
             currentDate == DateTime(d)
             daysDiff == (currentDate - createdDate) \div MinPerDay
             totalDays == cfg.durationWeeks * 7
             decrease == cfg.startValue - cfg.targetValue
         IN  IF currentDate < createdDate THEN cfg.startValue
             ELSE IF daysDiff >= totalDays THEN cfg.targetValue
             ELSE Round(cfg.startValue * totalDays - decrease * daysDiff, totalDays)

\* variant: the duration in weeks taken as a number of days
getReduceTargetForDate_weeksAsDays(habit, d) ==
    IF habit.habitType # "reduce" \/ habit.reduceConfig = None
    THEN 0
    ELSE LET cfg == Get(habit.reduceConfig)
             createdDate == DateTime(IsoDate(habit.createdAt))
             currentDate == DateTime(d)
             daysDiff == (currentDate - createdDate) \div MinPerDay
             totalDays == cfg.durationWeeks
             decrease == cfg.startValue - cfg.targetValue
         IN  IF currentDate < createdDate THEN cfg.startValue
             ELSE IF daysDiff >= totalDays THEN cfg.targetValue
             ELSE Max(cfg.targetValue,
                      Round(cfg.startValue * totalDays - decrease * daysDiff, totalDays))

\* getReduceTargetForDate(habit, dateString)
getReduceTargetForDate(habit, d) ==
    IF habit.habitType # "reduce" \/ habit.reduceConfig = None
    THEN 0
    ELSE LET cfg == Get(habit.reduceConfig)
             createdDate == DateTime(IsoDate(habit.createdAt))
             currentDate == DateTime(d)
             daysDiff == (currentDate - createdDate) \div MinPerDay
             totalDays == cfg.durationWeeks * 7
             decrease == cfg.startValue - cfg.targetValue
         IN  IF currentDate < createdDate THEN cfg.startValue
             ELSE IF daysDiff >= totalDays THEN cfg.targetValue
             ELSE Max(cfg.targetValue,
                      Round(cfg.startValue * totalDays - decrease * daysDiff, totalDays))

\* The source interpolates in double precision: startValue - decreasePerDay *
\* daysDiff can miss the exact value by a rounding error, which changes what
\* Math.round returns only when the exact value lies halfway between two
\* integers (possible only for an even durationWeeks). There Math.round gives
\* the integer above or the one below, depending on the error.
IsTie(habit, d) ==
    /\ habit.habitType = "reduce"
    /\ habit.reduceConfig # None
    /\ LET cfg == Get(habit.reduceConfig)
           daysDiff == d - IsoDate(habit.createdAt)
           totalDays == cfg.durationWeeks * 7
           scaled == cfg.startValue * totalDays
                        - (cfg.startValue - cfg.targetValue) * daysDiff
       IN  /\ daysDiff >= 0
           /\ daysDiff < totalDays
           /\ (2 * scaled) % totalDays = 0
           /\ scaled % totalDays # 0

\* the values getReduceTargetForDate(habit, dateString) can return
ReduceTargets(habit, d) ==
    LET above == getReduceTargetForDate(habit, d)
    IN  IF IsTie(habit, d)
        THEN {above, Max(Get(habit.reduceConfig).targetValue, above - 1)}
        ELSE {above}

\* variant: the preview computed for the day numbers it prints
generateSchedulePreview_daysFromOne(start, target, weeks) ==
    LET totalDays == weeks * 7
        decrease == start - target
        daysToShow == <<0, totalDays \div 2, totalDays>>
    IN  [k \in 1..3 |->
            [day |-> daysToShow[k] + 1,
             target |-> Max(target, Round(start * totalDays
                                            - decrease * (daysToShow[k] + 1),
                                          totalDays))]]

\* generateSchedulePreview(start, target, weeks, unit) of the habit form, for
\* weeks >= 1: the day numbers and the values of the three samples it joins
generateSchedulePreview(start, target, weeks) ==
    LET totalDays == weeks * 7
        decrease == start - target
        daysToShow == <<0, totalDays \div 2, totalDays>>
    IN  [k \in 1..3 |->
            [day |-> daysToShow[k] + 1,
             target |-> Max(target, Round(start * totalDays - decrease * daysToShow[k],
                                          totalDays))]]

\* the values the preview can show: where start - decreasePerDay * day lies
\* halfway between two integers, Math.round of the double gives either
PreviewTargets(start, target, weeks) ==
    LET totalDays == weeks * 7
        shown == generateSchedulePreview(start, target, weeks)
        scaled(k) == start * totalDays - (start - target) * (shown[k].day - 1)
        tie(k) == (2 * scaled(k)) % totalDays = 0 /\ scaled(k) % totalDays # 0
    IN  [k \in 1..3 |->
            IF tie(k)
            THEN {shown[k].target, Max(target, shown[k].target - 1)}
            ELSE {shown[k].target}]

\* getReduceValue(habit, dateString): reduceCompletions?.[d] ?? 0
getReduceValue(habit, d) ==
    IF habit.reduceCompletions # None /\ Has(Get(habit.reduceCompletions), d)
    THEN Get(habit.reduceCompletions)[d]
    ELSE 0

\* variant: the flag recomputed from the count at every read
isCompletedOnDate_derived(habit, d) ==
    IF habit.habitType = "reduce"
    THEN getReduceValue(habit, d) <= getReduceTargetForDate(habit, d)
    ELSE IF Has(habit.completions, d) THEN habit.completions[d] ELSE FALSE

\* isCompletedOnDate(habit, dateString): completions[d] ?? false
isCompletedOnDate(habit, d) ==
    IF Has(habit.completions, d) THEN habit.completions[d] ELSE FALSE

Range(s) == {s[k] : k \in 1..Len(s)}

Abs(n) == IF n < 0 THEN -n ELSE n

\* variant: custom frequency without the test that the date is not before the start
isHabitScheduledForDate_anyMultiple(habit, d, z) ==
    IF habit.habitType = "reduce"
    THEN DateTime(d) >= DateTime(IsoDate(habit.createdAt))
    ELSE LET dayOfWeek == getDay(DateTime(d), z)
         IN  CASE habit.frequency.type = "daily" -> TRUE
               [] habit.frequency.type = "weekly" ->
                    /\ habit.frequency.weekdays # None
                    /\ dayOfWeek \in Range(Get(habit.frequency.weekdays))
               [] habit.frequency.type = "custom" ->
                    IF habit.frequency.value = None \/ Get(habit.frequency.value) = 0
                    THEN FALSE
                    ELSE LET startDateStr == IF habit.frequency.startDate # None
                                             THEN Get(habit.frequency.startDate)
                                             ELSE IsoDate(habit.createdAt)
                             daysDiff == (DateTime(d) - DateTime(startDateStr))
                                            \div MinPerDay
                         IN  daysDiff % Abs(Get(habit.frequency.value)) = 0
               [] OTHER -> FALSE

\* variant: a reduce habit must also be on the schedule of its frequency
isHabitScheduledForDate_reduceOnSchedule(habit, d, z) ==
    LET dayOfWeek == getDay(DateTime(d), z)
        created == habit.habitType = "reduce"
                        => DateTime(d) >= DateTime(IsoDate(habit.createdAt))
    IN  CASE habit.frequency.type = "daily" -> created
          [] habit.frequency.type = "weekly" ->
                /\ created
                /\ habit.frequency.weekdays # None
                /\ dayOfWeek \in Range(Get(habit.frequency.weekdays))
          [] habit.frequency.type = "custom" ->
                IF habit.frequency.value = None \/ Get(habit.frequency.value) = 0
                THEN FALSE
                ELSE LET startDateStr == IF habit.frequency.startDate # None
                                         THEN Get(habit.frequency.startDate)
                                         ELSE IsoDate(habit.createdAt)
                         daysDiff == (DateTime(d) - DateTime(startDateStr))
                                        \div MinPerDay
                     IN  /\ created
                         /\ daysDiff >= 0
                         /\ daysDiff % Abs(Get(habit.frequency.value)) = 0
          [] OTHER -> FALSE

\* isHabitScheduledForDate(habit, dateString) on a host at offset z
isHabitScheduledForDate(habit, d, z) ==
    IF habit.habitType = "reduce"
    THEN DateTime(d) >= DateTime(IsoDate(habit.createdAt))
    ELSE LET dayOfWeek == getDay(DateTime(d), z)
         IN  CASE habit.frequency.type = "daily" -> TRUE
               [] habit.frequency.type = "weekly" ->
                    /\ habit.frequency.weekdays # None
                    /\ dayOfWeek \in Range(Get(habit.frequency.weekdays))
               [] habit.frequency.type = "custom" ->
                    IF habit.frequency.value = None \/ Get(habit.frequency.value) = 0
                    THEN FALSE
                    ELSE LET startDateStr == IF habit.frequency.startDate # None
                                             THEN Get(habit.frequency.startDate)
                                             ELSE IsoDate(habit.createdAt)
                             daysDiff == (DateTime(d) - DateTime(startDateStr))
                                            \div MinPerDay
                         IN  /\ daysDiff >= 0
                             /\ daysDiff % Abs(Get(habit.frequency.value)) = 0
               [] OTHER -> FALSE

----------------------------------------------------------------------------
\* Queries over the collection

\* habit.completions[dateString] as a condition: absent and false both fail
Truthy(habit, d) == Has(habit.completions, d) /\ habit.completions[d]

\* variant: every habit with an entry for the date counts as completed
getCompletionCountForDate_anyEntry(hs, d) ==
    [completed |-> Cardinality({i \in 1..Len(hs) : Has(hs[i].completions, d)}),
     total |-> Len(hs)]

\* getCompletionCountForDate(dateString)
getCompletionCountForDate(hs, d) ==
    [completed |-> Cardinality({i \in 1..Len(hs) : Truthy(hs[i], d)}),
     total |-> Len(hs)]

\* getWeekDates(dateString) on a host at offset z
getWeekDates(d, z) ==
    LET date == DateTime(d)
        day == getDay(date, z)
        diff == IF day = 0 THEN -6 ELSE 1 - day
        monday == setDate(date, z, getDate(date, z) + diff)
    IN  [k \in 1..7 |-> IsoDate(setDate(monday, z, getDate(monday, z) + (k - 1)))]

\* getCompletionCountForWeek(dateString)
getCompletionCountForWeek(hs, d, z) ==
    LET weekDates == getWeekDates(d, z)
    IN  [completed |->
            Cardinality({i \in 1..Len(hs) :
                            \E k \in 1..Len(weekDates) : Truthy(hs[i], weekDates[k])}),
         total |-> Len(hs)]

\* The key of a date string that new Date() cannot parse ("", "abc",
\* "2026-13-45"): new Date(key) is an invalid date, whose getFullYear() and
\* getMonth() are NaN, and NaN === n is false for every n
NotADate == -99999

\* variant: a key that does not parse matches every month
getCompletionCountForMonth_invalidMatches(hs, year, month, z) ==
    [completed |->
        Cardinality({i \in 1..Len(hs) :
                        \E dateStr \in DOMAIN hs[i].completions :
                            /\ hs[i].completions[dateStr]
                            /\ \/ dateStr = NotADate
                               \/ /\ getFullYear(DateTime(dateStr), z) = year
                                  /\ getMonth(DateTime(dateStr), z) = month}),
     total |-> Len(hs)]

\* getCompletionCountForMonth(year, month)
getCompletionCountForMonth(hs, year, month, z) ==
    [completed |->
        Cardinality({i \in 1..Len(hs) :
                        \E dateStr \in DOMAIN hs[i].completions :
                            /\ hs[i].completions[dateStr]
                            /\ dateStr # NotADate
                            /\ getFullYear(DateTime(dateStr), z) = year
                            /\ getMonth(DateTime(dateStr), z) = month}),
     total |-> Len(hs)]

----------------------------------------------------------------------------
\* The commands, as functions of the previous collection (the updater that
\* each command hands to setHabits)

\* generateId(): `${Date.now()}-${Math.random().toString(36).substr(2, 9)}`
generateId(t, r) == <<t, r>>

\* addHabit: the record it builds; t is the clock reading, r the random draw
newHabit(name, frequency, habitType, reduceConfig, t, r) ==
    [id |-> generateId(t, r),
     name |-> name,
     habitType |-> habitType,
     frequency |-> frequency,
     createdAt |-> t,
     completions |-> EmptyMap,
     reduceConfig |->
        IF habitType = "reduce" /\ reduceConfig # None THEN reduceConfig ELSE None,
     reduceCompletions |->
        IF habitType = "reduce" /\ reduceConfig # None THEN Some(EmptyMap) ELSE None]

\* variant: the new habit put first
addHabit_prepends(prev, name, frequency, habitType, reduceConfig, t, r) ==
    <<newHabit(name, frequency, habitType, reduceConfig, t, r)>> \o prev

addHabit(prev, name, frequency, habitType, reduceConfig, t, r) ==
    Append(prev, newHabit(name, frequency, habitType, reduceConfig, t, r))

\* variant: the habit rebuilt without its completions
updatedHabit_dropsCompletions(habit, name, frequency, habitType, reduceConfig) ==
    [habit EXCEPT
        !.name = name,
        !.frequency = frequency,
        !.habitType = habitType,
        !.completions = EmptyMap,
        !.reduceConfig =
            IF habitType = "reduce" /\ reduceConfig # None THEN reduceConfig ELSE None,
        !.reduceCompletions =
            IF habitType = "reduce" /\ reduceConfig # None
            THEN (IF habit.reduceCompletions # None
                  THEN habit.reduceCompletions
                  ELSE Some(EmptyMap))
            ELSE None]

\* variant: the counts survive a switch to build
updatedHabit_keepsCounts(habit, name, frequency, habitType, reduceConfig) ==
    [habit EXCEPT
        !.name = name,
        !.frequency = frequency,
        !.habitType = habitType,
        !.reduceConfig =
            IF habitType = "reduce" /\ reduceConfig # None THEN reduceConfig ELSE None,
        !.reduceCompletions =
            IF habitType = "reduce" /\ reduceConfig # None
            THEN (IF habit.reduceCompletions # None
                  THEN habit.reduceCompletions
                  ELSE Some(EmptyMap))
            ELSE habit.reduceCompletions]

\* variant: the habit stamped anew by the update
updatedHabit_restamped(habit, name, frequency, habitType, reduceConfig) ==
    [habit EXCEPT
        !.name = name,
        !.frequency = frequency,
        !.habitType = habitType,
        !.createdAt = 0,
        !.reduceConfig =
            IF habitType = "reduce" /\ reduceConfig # None THEN reduceConfig ELSE None,
        !.reduceCompletions =
            IF habitType = "reduce" /\ reduceConfig # None
            THEN (IF habit.reduceCompletions # None
                  THEN habit.reduceCompletions
                  ELSE Some(EmptyMap))
            ELSE None]

\* updateHabit: the record that replaces a habit whose id matches
updatedHabit(habit, name, frequency, habitType, reduceConfig) ==
    [habit EXCEPT
        !.name = name,
        !.frequency = frequency,
        !.habitType = habitType,
        !.reduceConfig =
            IF habitType = "reduce" /\ reduceConfig # None THEN reduceConfig ELSE None,
        !.reduceCompletions =
            IF habitType = "reduce" /\ reduceConfig # None
            THEN (IF habit.reduceCompletions # None
                  THEN habit.reduceCompletions
                  ELSE Some(EmptyMap))
            ELSE None]

updateHabit(prev, id, name, frequency, habitType, reduceConfig) ==
    [i \in 1..Len(prev) |->
        IF prev[i].id = id
        THEN updatedHabit(prev[i], name, frequency, habitType, reduceConfig)
        ELSE prev[i]]

MatchesId(h, id) == h.id = id

\* variant: the filter inverted
deleteHabit_keepsMatching(prev, id) == SelectSeq(prev, LAMBDA h : MatchesId(h, id))

\* variant: the collection cut at the first habit with the id
deleteHabit_truncates(prev, id) ==
    IF \E k \in 1..Len(prev) : prev[k].id = id
    THEN LET first == CHOOSE k \in 1..Len(prev) :
                        prev[k].id = id /\ \A j \in 1..(k - 1) : prev[j].id # id
         IN  SubSeq(prev, 1, first - 1)
    ELSE prev

KeepsId(h, id) == h.id # id

deleteHabit(prev, id) == SelectSeq(prev, LAMBDA h : KeepsId(h, id))

\* variant: a date without an entry counts as completed
toggledHabit_absentIsTrue(habit, d) ==
    LET currentValue == IF Has(habit.completions, d) THEN habit.completions[d] ELSE TRUE
    IN  [habit EXCEPT !.completions = MapSet(habit.completions, d, ~currentValue)]

\* variant: a reduce habit's cell follows its count instead of flipping
toggledHabit_countDecides(habit, d) ==
    LET currentValue == IF Has(habit.completions, d) THEN habit.completions[d] ELSE FALSE
        flag == IF habit.habitType = "reduce"
                THEN getReduceValue(habit, d) <= getReduceTargetForDate(habit, d)
                ELSE ~currentValue
    IN  [habit EXCEPT !.completions = MapSet(habit.completions, d, flag)]

\* toggleCompletionForDate: the record that replaces a habit whose id matches
toggledHabit(habit, d) ==
    LET currentValue == IF Has(habit.completions, d) THEN habit.completions[d] ELSE FALSE
    IN  [habit EXCEPT !.completions = MapSet(habit.completions, d, ~currentValue)]

toggleCompletionForDate(prev, id, d) ==
    [i \in 1..Len(prev) |->
        IF prev[i].id = id THEN toggledHabit(prev[i], d) ELSE prev[i]]

\* variant: the entries of the other dates are not copied
recordedHabit_onlyThisDate(habit, d, value) ==
    LET target == getReduceTargetForDate(habit, d)
        isCompleted == value <= target
    IN  [habit EXCEPT
            !.reduceCompletions = Some(MapSet(EmptyMap, d, value)),
            !.completions = MapSet(EmptyMap, d, isCompleted)]

\* variant: the count must be strictly below the target
recordedHabit_strict(habit, d, value) ==
    LET target == getReduceTargetForDate(habit, d)
        isCompleted == value < target
        old == IF habit.reduceCompletions # None
               THEN Get(habit.reduceCompletions) ELSE EmptyMap
    IN  [habit EXCEPT
            !.reduceCompletions = Some(MapSet(old, d, value)),
            !.completions = MapSet(habit.completions, d, isCompleted)]

\* the record setReduceCompletion / adjustReduceCompletion return: the count
\* under reduceCompletions[d] and the derived flag under completions[d]
recordedHabit(habit, d, value) ==
    LET target == getReduceTargetForDate(habit, d)
        isCompleted == value <= target
        old == IF habit.reduceCompletions # None
               THEN Get(habit.reduceCompletions) ELSE EmptyMap
    IN  [habit EXCEPT
            !.reduceCompletions = Some(MapSet(old, d, value)),
            !.completions = MapSet(habit.completions, d, isCompleted)]

\* variant: the habit's type is not looked at
setReduceCompletion_anyType(prev, id, d, value) ==
    [i \in 1..Len(prev) |->
        IF prev[i].id = id
        THEN recordedHabit(prev[i], d, value)
        ELSE prev[i]]

setReduceCompletion(prev, id, d, value) ==
    [i \in 1..Len(prev) |->
        IF prev[i].id = id /\ prev[i].habitType = "reduce"
        THEN recordedHabit(prev[i], d, value)
        ELSE prev[i]]

\* variant: the sum stored without the clamp at 0
adjustedValue_unclamped(habit, d, delta) == getReduceValue(habit, d) + delta

\* adjustReduceCompletion: Math.max(0, currentValue + delta)
adjustedValue(habit, d, delta) == Max(0, getReduceValue(habit, d) + delta)

adjustReduceCompletion(prev, id, d, delta) ==
    [i \in 1..Len(prev) |->
        IF prev[i].id = id /\ prev[i].habitType = "reduce"
        THEN recordedHabit(prev[i], d, adjustedValue(prev[i], d, delta))
        ELSE prev[i]]

\* variant: the name stored as typed
renameHabit_untrimmed(prev, id, newName) ==
    IF Trim(newName) = <<>>
    THEN prev
    ELSE [i \in 1..Len(prev) |->
            IF prev[i].id = id THEN [prev[i] EXCEPT !.name = newName] ELSE prev[i]]

\* renameHabit: returns before setHabits when the name trims to ""
renameHabit(prev, id, newName) ==
    IF Trim(newName) = <<>>
    THEN prev
    ELSE [i \in 1..Len(prev) |->
            IF prev[i].id = id THEN [prev[i] EXCEPT !.name = Trim(newName)] ELSE prev[i]]

----------------------------------------------------------------------------
\* Persistence: the item localStorage holds under STORAGE_KEY is absent, the
\* empty string, a text that JSON.parse rejects, or the text of a JSON value. A
\* JSON value is null, a number, an object that is no array, or an array; an
\* element of an array is null, a number or an object with its fields. The
\* fields of an object that is a habit are those of the Habit record, except
\* that habitType is optional.

Absent == [kind |-> "absent"]

EmptyText == [kind |-> "empty"]

Unparseable == [kind |-> "garbage"]

JsonText(v) == [kind |-> "json", value |-> v]

JsonNull == [type |-> "null"]

JsonNumber == [type |-> "number"]

JsonPlainObject == [type |-> "object"]

JsonArray(items) == [type |-> "array", items |-> items]

JsonRecord(fields) == [type |-> "object", fields |-> fields]

\* variant: the completions left out of the text
Serialize_withoutCompletions(hs) ==
    JsonText(JsonArray([i \in 1..Len(hs) |->
        JsonRecord([hs[i] EXCEPT !.habitType = Some(hs[i].habitType),
                                 !.completions = EmptyMap])]))

\* JSON.stringify(habits)
Serialize(hs) ==
    JsonText(JsonArray([i \in 1..Len(hs) |->
        JsonRecord([hs[i] EXCEPT !.habitType = Some(hs[i].habitType)])]))

\* variant: every loaded record becomes a build habit
Migrate_allBuild(element) ==
    IF element.type = "object"
    THEN [element.fields EXCEPT !.habitType = "build"]
    ELSE [habitType |-> "build"]

\* ({ ...habit, habitType: habit.habitType ?? "build" }) for an element that
\* is not null; the spread of a number has no fields
Migrate(element) ==
    IF element.type = "object"
    THEN [element.fields EXCEPT
            !.habitType = IF element.fields.habitType = None
                          THEN "build"
                          ELSE Get(element.fields.habitType)]
    ELSE [habitType |-> "build"]

\* the useState initializer: [] when the item is absent or empty, when
\* JSON.parse throws, when the value has no map method (TypeError) and when an
\* element is null (TypeError on habit.habitType); else the migrated records
Load(item) ==
    IF item.kind # "json" THEN <<>>
    ELSE IF item.value.type # "array" THEN <<>>
    ELSE IF \E k \in 1..Len(item.value.items) : item.value.items[k].type = "null"
    THEN <<>>
    ELSE [k \in 1..Len(item.value.items) |-> Migrate(item.value.items[k])]

\* variant: after a failed write the effect writes no more
SaveEffect_givesUp(st, hs) ==
    IF st.writable /\ ~st.failed
    THEN [st EXCEPT !.item = Serialize(hs), !.saved = TRUE]
    ELSE [st EXCEPT !.saved = FALSE, !.failed = TRUE]

\* the save effect that runs after a render with a new collection:
\* localStorage.setItem, whose exception is caught and logged
SaveEffect(st, hs) ==
    IF st.writable
    THEN [st EXCEPT !.item = Serialize(hs), !.saved = TRUE]
    ELSE [st EXCEPT !.saved = FALSE, !.failed = TRUE]

\* localStorage as the hook leaves it after construction from item: read is
\* the item the initializer read; saved tells whether the latest write
\* succeeded, failed whether any write has failed
Mounted(item, writable, hs) ==
    SaveEffect([item |-> item, writable |-> writable, read |-> item,
                saved |-> TRUE, failed |-> FALSE], hs)

----------------------------------------------------------------------------
\* The values the commands are called with

Daily == [type |-> "daily", value |-> None, weekdays |-> None, startDate |-> None]

Weekly135 ==
    [type |-> "weekly", value |-> None, weekdays |-> Some(<<1, 3, 5>>), startDate |-> None]

\* 3 per day down to 0 over one week
ConfigA == [startValue |-> 3, targetValue |-> 0, durationWeeks |-> 1, unit |-> "mins"]

\* 1 per day down to 0 over one week
ConfigB == [startValue |-> 1, targetValue |-> 0, durationWeeks |-> 1, unit |-> "mins"]

\* the clock at addHabit: noon (UTC) of day 0 and of day 2
ClockReadings == {DateTime(0) + 720, DateTime(2) + 720}

\* what Math.random() contributes to an id
RandomDraws == {0}

\* an id that generateId never returns here: no clock reading is 0
NeverIssued == <<0, 0>>

\* the ids the commands are called with
IdInputs == (ClockReadings \X RandomDraws) \cup {NeverIssued}

\* The inputs of a specification: the values its commands are called with.
\* Every specification runs all seven commands; each draws richly from the
\* inputs its claims are about and sparsely from the others.

\* the whole store, two habits side by side
StoreInputs ==
    [names |-> {<<"a">>},
     frequencies |-> {Daily},
     habitTypes |-> {"build", "reduce"},
     reduceConfigs |-> {None, Some(ConfigA)},
     dates |-> {3},
     values |-> {2},
     deltas |-> {1}]

\* the numeric tracking of reduce habits
ReduceInputs ==
    [names |-> {<<"a">>},
     frequencies |-> {Daily},
     habitTypes |-> {"build", "reduce"},
     reduceConfigs |-> {None, Some(ConfigA), Some(ConfigB)},
     dates |-> {3},
     values |-> {-1, 2},
     deltas |-> {-1, 1}]

\* the edit form: name, frequency, type and config replaced
EditInputs ==
    [names |-> {<<"a">>, <<"b">>},
     frequencies |-> {Daily, Weekly135},
     habitTypes |-> {"build", "reduce"},
     reduceConfigs |-> {None, Some(ConfigA)},
     dates |-> {3},
     values |-> {0},
     deltas |-> {-1}]

\* names with and without surrounding whitespace
NameInputs ==
    [names |-> {<<>>, <<" ">>, <<"a">>, <<" ", "b", "\t">>},
     frequencies |-> {Daily},
     habitTypes |-> {"build"},
     reduceConfigs |-> {None},
     dates |-> {3},
     values |-> {2},
     deltas |-> {1}]

\* the completion matrix: cells of two dates toggled
ToggleInputs ==
    [names |-> {<<"a">>},
     frequencies |-> {Daily},
     habitTypes |-> {"build", "reduce"},
     reduceConfigs |-> {Some(ConfigA)},
     dates |-> {0, 3},
     values |-> {0},
     deltas |-> {-1}]

\* the roll-ups per week and month: completions of Monday 1970-01-26, Saturday
\* 1970-01-31 and Sunday 1970-02-01 (one week, two months)
CountInputs ==
    [names |-> {<<"a">>},
     frequencies |-> {Weekly135},
     habitTypes |-> {"build"},
     reduceConfigs |-> {None},
     dates |-> {25, 30, 31},
     values |-> {0},
     deltas |-> {-1}]

\* weekly without a weekdays field, and with an empty one
WeeklyAbsent == [type |-> "weekly", value |-> None, weekdays |-> None, startDate |-> None]

WeeklyEmpty ==
    [type |-> "weekly", value |-> None, weekdays |-> Some(<<>>), startDate |-> None]

\* the numbers of the reduce configs the queries are tried on: targets below,
\* at and above the start, and durations of 0, 1, 2 and 4 weeks
ProbeStarts == {0, 3, 60}

ProbeTargets == {0, 3, 5}

ProbeWeeks == {0, 1, 2, 4}

ProbeConfigs ==
    {[startValue |-> s, targetValue |-> t, durationWeeks |-> w, unit |-> "mins"] :
        s \in ProbeStarts, t \in ProbeTargets, w \in ProbeWeeks}

\* the dates the queries are asked about: Wednesday 1969-12-31 to Sunday
\* 1970-02-01, from the day before a habit's creation to past four weeks after
ProbeDates == (-1)..31

\* the calendar day of 2026-01-01
Day20260101 == 20454

\* every 3 days from 2026-01-01
Custom3From2026 ==
    [type |-> "custom", value |-> Some(3), weekdays |-> None,
     startDate |-> Some(Day20260101)]

\* every 2 days, without a start date: counted from the creation date
Custom2 == [type |-> "custom", value |-> Some(2), weekdays |-> None, startDate |-> None]

\* every day from 1970-01-04
Custom1From4th == [type |-> "custom", value |-> Some(1), weekdays |-> None, startDate |-> Some(3)]

\* the days around 2026-01-01: 2025-12-29 to 2026-01-07
Dates2026 == (Day20260101 - 3)..(Day20260101 + 6)

\* the scheduling of build habits, as addHabit is called for them
CalendarInputs ==
    [names |-> {<<"a">>},
     frequencies |-> {Daily, Weekly135, WeeklyAbsent, WeeklyEmpty,
                      Custom3From2026, Custom2, Custom1From4th},
     habitTypes |-> {"build"},
     reduceConfigs |-> {None},
     dates |-> ProbeDates \cup Dates2026,
     values |-> {0},
     deltas |-> {-1}]

\* a frequency whose type is none of daily, weekly and custom
Unrecognized ==
    [type |-> "monthly", value |-> None, weekdays |-> None, startDate |-> None]

\* the targets of reduce habits, as addHabit is called for them
TargetInputs ==
    [names |-> {<<"a">>},
     frequencies |-> {Daily, Weekly135, Custom3From2026, Unrecognized},
     habitTypes |-> {"build", "reduce"},
     reduceConfigs |-> {None} \cup {Some(c) : c \in ProbeConfigs},
     dates |-> ProbeDates,
     values |-> {0},
     deltas |-> {-1}]

\* persistence: commands on a collection that was loaded
PersistInputs ==
    [names |-> {<<"a">>},
     frequencies |-> {Daily},
     habitTypes |-> {"build"},
     reduceConfigs |-> {None},
     dates |-> {3},
     values |-> {2},
     deltas |-> {1}]

\* records as earlier sessions stored them: one written before habitType
\* existed, one with habitType reduce and no reduceConfig, a complete reduce one
LegacyBuild ==
    [id |-> <<DateTime(0) + 720, 0>>, name |-> <<"a">>, habitType |-> None,
     frequency |-> Daily, createdAt |-> DateTime(0) + 720,
     completions |-> [d \in {3} |-> TRUE],
     reduceConfig |-> None, reduceCompletions |-> None]

ReduceNoConfig ==
    [id |-> <<DateTime(2) + 720, 0>>, name |-> <<"a">>, habitType |-> Some("reduce"),
     frequency |-> Weekly135, createdAt |-> DateTime(2) + 720,
     completions |-> EmptyMap,
     reduceConfig |-> None, reduceCompletions |-> None]

StoredReduce ==
    [id |-> <<DateTime(2) + 720, 0>>, name |-> <<"a">>, habitType |-> Some("reduce"),
     frequency |-> Daily, createdAt |-> DateTime(2) + 720,
     completions |-> EmptyMap,
     reduceConfig |-> Some(ConfigA), reduceCompletions |-> Some(EmptyMap)]

ArrayOf(records) == JsonText(JsonArray([k \in 1..Len(records) |-> JsonRecord(records[k])]))

\* what the key can hold when the hook is constructed
PersistedItems ==
    {Absent, ArrayOf(<<LegacyBuild>>), ArrayOf(<<ReduceNoConfig>>),
     ArrayOf(<<LegacyBuild, ReduceNoConfig>>), ArrayOf(<<StoredReduce>>)}

\* what an array found under the key can hold, well formed or not
StoredElements ==
    {JsonNull, JsonNumber,
     JsonRecord(LegacyBuild), JsonRecord(ReduceNoConfig), JsonRecord(StoredReduce)}

MaxStored == 2

\* what the key can hold when nothing is known about who wrote it
StoredItems ==
    {Absent, EmptyText, Unparseable,
     JsonText(JsonNull), JsonText(JsonNumber), JsonText(JsonPlainObject)}
    \cup {JsonText(JsonArray(items)) :
            items \in UNION {[1..n -> StoredElements] : n \in 0..MaxStored}}

\* the habits asked about today
TodayInputs ==
    [names |-> {<<"a">>},
     frequencies |-> {Daily, Custom2},
     habitTypes |-> {"build"},
     reduceConfigs |-> {None},
     dates |-> {3},
     values |-> {0},
     deltas |-> {-1}]

\* what the clock reads when today is asked for: 02:00 and 23:00 UTC of
\* 1970-01-04, 02:00 UTC of 1970-01-05
TodayClocks == {DateTime(3) + 120, DateTime(3) + 1380, DateTime(4) + 120}

\* A date string written by its fields, for the commands that use it as a key
\* and never parse it: the fields need not name a day of the calendar
DateString(year, month, day) == [year |-> year, month |-> month, day |-> day]

\* keys as the caller passes them: "2026-01-15" and "2026-13-45"
KeyInputs ==
    [names |-> {<<"a">>},
     frequencies |-> {Daily},
     habitTypes |-> {"build"},
     reduceConfigs |-> {None},
     dates |-> {DateString(2026, 1, 15), DateString(2026, 13, 45)},
     values |-> {2},
     deltas |-> {1}]

\* the month roll-up over free-form keys: a key that is no date and 1970-02-01
MalformedInputs ==
    [names |-> {<<"a">>},
     frequencies |-> {Daily},
     habitTypes |-> {"build"},
     reduceConfigs |-> {None},
     dates |-> {NotADate, 31},
     values |-> {0},
     deltas |-> {-1}]

\* time zones of hosts: New York (winter), UTC, Tokyo
HostOffsets == {-300, 0, 540}

----------------------------------------------------------------------------
\* History variables

NoWrite == [op |-> "none", value |-> 0, edited |-> FALSE]

Written(op, value) == [op |-> op, value |-> value, edited |-> FALSE]

\* the last write to date d of the habit at position i
LastWrite(i, d) == IF Has(writes[i], d) THEN writes[i][d] ELSE NoWrite

Known(id) == \E i \in 1..Len(habits) : habits[i].id = id

\* "applied", or why the command found nothing to do
Outcome(id) == IF Known(id) THEN "applied" ELSE "unknown id"

KnownReduce(id) ==
    \E i \in 1..Len(habits) : habits[i].id = id /\ habits[i].habitType = "reduce"

CountOutcome(id) ==
    IF ~Known(id) THEN "unknown id"
    ELSE IF ~KnownReduce(id) THEN "not a reduce habit"
    ELSE "applied"

\* an updateHabit that changes what getReduceTargetForDate computes for the habit
ChangesTarget(habit, habitType, reduceConfig) ==
    LET new == updatedHabit(habit, habit.name, habit.frequency, habitType, reduceConfig)
    IN  new.habitType # habit.habitType \/ new.reduceConfig # habit.reduceConfig

MarkEdited(w) == [d \in DOMAIN w |-> [w[d] EXCEPT !.edited = TRUE]]

\* no query has been made
\* HomeScreen after its first render: no confirmation is pending, no timer is
\* set. opened numbers the click that opened the pending confirmation, timers
\* holds the numbers of the clicks whose timers have not fired, oldest first,
\* cleared tells what the last timer to fire found
NoClear == [timer |-> 0, confirmation |-> 0]

NoScreen ==
    [deletingHabitId |-> None, opened |-> 0, timers |-> <<>>, clicks |-> 0,
     cleared |-> NoClear]

NoResult == [fn |-> "none"]

\* a flag as the value of a write
FlagValue(b) == IF b THEN 1 ELSE 0

----------------------------------------------------------------------------
\* The state machine: one action per command

\* the empty collection; no command reads the host's zone, so the
\* specifications of the commands alone run on a host at UTC
Init ==
    /\ habits = <<>>
    /\ writes = <<>>
    /\ outcome = "applied"
    /\ host = 0
    /\ result = NoResult
    /\ screen = NoScreen
    /\ storage = Mounted(Absent, TRUE, habits)

AddHabit(name, frequency, habitType, reduceConfig, t, r) ==
    /\ Len(habits) < MaxHabits
    /\ habits' = addHabit(habits, name, frequency, habitType, reduceConfig, t, r)
    /\ writes' = Append(writes, EmptyMap)
    /\ outcome' = "applied"
    /\ storage' = SaveEffect(storage, habits')
    /\ UNCHANGED <<host, result, screen>>

UpdateHabit(id, name, frequency, habitType, reduceConfig) ==
    /\ habits' = updateHabit(habits, id, name, frequency, habitType, reduceConfig)
    /\ writes' = [i \in 1..Len(habits) |->
                    IF habits[i].id = id /\ ChangesTarget(habits[i], habitType, reduceConfig)
                    THEN MarkEdited(writes[i])
                    ELSE writes[i]]
    /\ outcome' = Outcome(id)
    /\ storage' = SaveEffect(storage, habits')
    /\ UNCHANGED <<host, result, screen>>

\* the hook's deleteHabit and the save effect after it
Deleted(id) ==
    /\ habits' = deleteHabit(habits, id)
    /\ writes' = LET kept == {i \in 1..Len(habits) : habits[i].id # id}
                     RECURSIVE Pick(_)
                     Pick(i) == IF i > Len(habits) THEN <<>>
                                ELSE (IF i \in kept THEN <<writes[i]>> ELSE <<>>) \o Pick(i + 1)
                 IN  Pick(1)
    /\ outcome' = IF Known(id) THEN "deleted" ELSE "unknown id"
    /\ storage' = SaveEffect(storage, habits')
    /\ UNCHANGED <<host, result>>

DeleteHabit(id) ==
    /\ Deleted(id)
    /\ UNCHANGED screen

RenameHabit(id, newName) ==
    /\ habits' = renameHabit(habits, id, newName)
    /\ writes' = writes
    /\ outcome' = IF Trim(newName) = <<>> THEN "blank name" ELSE Outcome(id)
    /\ storage' = IF Trim(newName) = <<>>
                  THEN storage
                  ELSE SaveEffect(storage, habits')
    /\ UNCHANGED <<host, result, screen>>

ToggleCompletionForDate(id, d) ==
    /\ habits' = toggleCompletionForDate(habits, id, d)
    /\ writes' = [i \in 1..Len(habits) |->
                    IF habits[i].id = id
                    THEN MapSet(writes[i], d,
                                Written("toggle",
                                        FlagValue(~isCompletedOnDate(habits[i], d))))
                    ELSE writes[i]]
    /\ outcome' = Outcome(id)
    /\ storage' = SaveEffect(storage, habits')
    /\ UNCHANGED <<host, result, screen>>

SetReduceCompletion(id, d, value) ==
    /\ habits' = setReduceCompletion(habits, id, d, value)
    /\ writes' = [i \in 1..Len(habits) |->
                    IF habits[i].id = id /\ habits[i].habitType = "reduce"
                    THEN MapSet(writes[i], d, Written("set", value))
                    ELSE writes[i]]
    /\ outcome' = CountOutcome(id)
    /\ storage' = SaveEffect(storage, habits')
    /\ UNCHANGED <<host, result, screen>>

\* the count has no upper bound in the source; the model stops at MaxCount
AdjustReduceCompletion(id, d, delta) ==
    /\ \A i \in 1..Len(habits) :
        (habits[i].id = id /\ habits[i].habitType = "reduce")
            => adjustedValue(habits[i], d, delta) <= MaxCount
    /\ habits' = adjustReduceCompletion(habits, id, d, delta)
    /\ writes' = [i \in 1..Len(habits) |->
                    IF habits[i].id = id /\ habits[i].habitType = "reduce"
                    THEN MapSet(writes[i], d,
                                Written("adjust", adjustedValue(habits[i], d, delta)))
                    ELSE writes[i]]
    /\ outcome' = CountOutcome(id)
    /\ storage' = SaveEffect(storage, habits')
    /\ UNCHANGED <<host, result, screen>>

\* each command, called with any of the inputs of I
AddAny(I) ==
    \E name \in I.names, frequency \in I.frequencies, habitType \in I.habitTypes,
       reduceConfig \in I.reduceConfigs, t \in ClockReadings, r \in RandomDraws :
        AddHabit(name, frequency, habitType, reduceConfig, t, r)

UpdateAny(I) ==
    \E id \in IdInputs, name \in I.names, frequency \in I.frequencies,
       habitType \in I.habitTypes, reduceConfig \in I.reduceConfigs :
        UpdateHabit(id, name, frequency, habitType, reduceConfig)

DeleteAny(I) == \E id \in IdInputs : DeleteHabit(id)

RenameAny(I) == \E id \in IdInputs, newName \in I.names : RenameHabit(id, newName)

ToggleAny(I) == \E id \in IdInputs, d \in I.dates : ToggleCompletionForDate(id, d)

SetAny(I) ==
    \E id \in IdInputs, d \in I.dates, value \in I.values : SetReduceCompletion(id, d, value)

AdjustAny(I) ==
    \E id \in IdInputs, d \in I.dates, delta \in I.deltas :
        AdjustReduceCompletion(id, d, delta)

NextOver(I) ==
    \/ AddAny(I)
    \/ UpdateAny(I)
    \/ DeleteAny(I)
    \/ RenameAny(I)
    \/ ToggleAny(I)
    \/ SetAny(I)
    \/ AdjustAny(I)

Next == NextOver(StoreInputs)

Spec == Init /\ [][Next]_vars

NextReduce == NextOver(ReduceInputs)

SpecReduce == Init /\ [][NextReduce]_vars

NextEdit == NextOver(EditInputs)

SpecEdit == Init /\ [][NextEdit]_vars

NextName == NextOver(NameInputs)

SpecName == Init /\ [][NextName]_vars

NextToggle == NextOver(ToggleInputs)

SpecToggle == Init /\ [][NextToggle]_vars

NextKeys == NextOver(KeyInputs)

SpecKeys == Init /\ [][NextKeys]_vars

\* the empty collection on a host in any of the time zones
InitAnywhere ==
    /\ habits = <<>>
    /\ writes = <<>>
    /\ outcome = "applied"
    /\ host \in HostOffsets
    /\ result = NoResult
    /\ screen = NoScreen
    /\ storage = Mounted(Absent, TRUE, habits)

NextCounts == NextOver(CountInputs)

NextMalformed == NextOver(MalformedInputs)

SpecMalformed == InitAnywhere /\ [][NextMalformed]_vars

\* Persistence: the hook constructed over what the key holds

\* the state after construction: the initializer has read one of the items
\* and the first save effect has run, on a medium that accepts writes or not
InitMounted(items, writables) ==
    /\ \E item \in items, writable \in writables :
        /\ habits = Load(item)
        /\ storage = Mounted(item, writable, habits)
    /\ writes = [i \in 1..Len(habits) |-> EmptyMap]
    /\ outcome = "loaded"
    /\ host = 0
    /\ result = NoResult
    /\ screen = NoScreen

\* the page is loaded again: the hook is constructed over the stored item
Reload ==
    /\ habits' = Load(storage.item)
    /\ storage' = Mounted(storage.item, storage.writable, habits')
    /\ writes' = [i \in 1..Len(habits') |-> EmptyMap]
    /\ outcome' = "loaded"
    /\ result' = NoResult
    /\ UNCHANGED <<host, screen>>

\* the medium starts or stops accepting writes (quota, private mode)
SetWritable(writable) ==
    /\ storage.writable # writable
    /\ storage' = [storage EXCEPT !.writable = writable]
    /\ UNCHANGED <<habits, writes, outcome, host, result, screen>>

\* a first session on a medium whose writes can fail
InitPersist == InitMounted({Absent}, BOOLEAN)

NextPersist ==
    \/ NextOver(PersistInputs)
    \/ \E writable \in BOOLEAN : SetWritable(writable)

SpecPersist == InitPersist /\ [][NextPersist]_vars

\* a session over records of earlier sessions
InitMigrate == InitMounted(PersistedItems, {TRUE})

NextMigrate == NextOver(PersistInputs)

SpecMigrate == InitMigrate /\ [][NextMigrate]_vars

\* construction alone, over anything the key can hold
InitStartup == InitMounted(StoredItems, BOOLEAN)

NextStartup ==
    \/ Reload
    \/ \E writable \in BOOLEAN : SetWritable(writable)

SpecStartup == InitStartup /\ [][NextStartup]_vars

\* The earlier useHabits: the state starts as [], a mount effect loads and a
\* second effect saves. outcome is the position of the startup: "rendered"
\* (first render done, no effect has run), "load effect" (the item is read and
\* setHabits(parsed) is queued), "save effect" (the save effect of the first
\* render has run), "rerendered" (the queued collection is the state),
\* "loaded" (no effect is left to run)

\* records as the earlier hook stored them
EarlierRecords ==
    {[LegacyBuild EXCEPT !.id = generateId(t, 0), !.createdAt = t, !.completions = c] :
        t \in ClockReadings, c \in {EmptyMap, LegacyBuild.completions}}

\* well-formed stored collections that are not empty, ids distinct
EarlierItems ==
    {ArrayOf(records) :
        records \in {rs \in UNION {[1..n -> EarlierRecords] : n \in 1..MaxStored} :
                        \A j, k \in 1..Len(rs) : rs[j].id = rs[k].id => j = k}}

\* JSON.parse(stored) of a stored array of records
ParsedEarlier(item) == [k \in 1..Len(item.value.items) |-> item.value.items[k].fields]

\* the earlier save effect: setItem(JSON.stringify(habits)), exception caught
SaveEffectEarlier(st, hs) ==
    IF st.writable
    THEN [st EXCEPT !.item = ArrayOf(hs), !.saved = TRUE]
    ELSE [st EXCEPT !.saved = FALSE, !.failed = TRUE]

\* first render of the earlier hook over a stored collection
InitEarlier ==
    /\ habits = <<>>
    /\ writes = <<>>
    /\ outcome = "rendered"
    /\ host = 0
    /\ result = NoResult
    /\ screen = NoScreen
    /\ \E item \in EarlierItems, writable \in BOOLEAN :
        storage = [item |-> item, writable |-> writable, read |-> Absent,
                   saved |-> TRUE, failed |-> FALSE]

\* the mount effect: getItem, JSON.parse, setHabits(parsed) queued
LoadEffect ==
    /\ outcome = "rendered"
    /\ storage' = [storage EXCEPT !.read = storage.item]
    /\ outcome' = "load effect"
    /\ UNCHANGED <<habits, writes, host, result, screen>>

\* the save effect, run with the habits of the render it belongs to
SaveEffectRuns ==
    /\ outcome \in {"load effect", "rerendered"}
    /\ storage' = SaveEffectEarlier(storage, habits)
    /\ outcome' = IF outcome = "load effect" THEN "save effect" ELSE "loaded"
    /\ UNCHANGED <<habits, writes, host, result, screen>>

\* the render that the queued setHabits(parsed) causes
Rerender ==
    /\ outcome = "save effect"
    /\ habits' = ParsedEarlier(storage.read)
    /\ writes' = [i \in 1..Len(habits') |-> EmptyMap]
    /\ outcome' = "rerendered"
    /\ UNCHANGED <<host, result, storage, screen>>

\* the page is closed and opened again, at any position of the startup
Interrupt ==
    /\ habits' = <<>>
    /\ writes' = <<>>
    /\ outcome' = "rendered"
    /\ storage' = [storage EXCEPT !.read = Absent, !.saved = TRUE, !.failed = FALSE]
    /\ UNCHANGED <<host, result, screen>>

NextEarlier ==
    \/ LoadEffect
    \/ SaveEffectRuns
    \/ Rerender
    \/ Interrupt
    \/ \E writable \in BOOLEAN : SetWritable(writable)

SpecEarlier == InitEarlier /\ [][NextEarlier]_vars

\* HomeScreen over a collection of two habits

\* handleDeleteHabit(habitId): the click on a habit's delete button
HandleDeleteHabit(habitId) ==
    /\ screen.clicks < MaxClicks
    /\ IF screen.deletingHabitId = Some(habitId)
       THEN /\ Deleted(habitId)
            /\ screen' = [screen EXCEPT !.deletingHabitId = None,
                                        !.opened = 0,
                                        !.clicks = @ + 1]
       ELSE /\ screen' = [screen EXCEPT !.deletingHabitId = Some(habitId),
                                        !.opened = screen.clicks + 1,
                                        !.timers = Append(@, screen.clicks + 1),
                                        !.clicks = @ + 1]
            /\ UNCHANGED <<habits, writes, outcome, host, result, storage>>

\* the callback of the oldest setTimeout(..., 3000): setDeletingHabitId(null)
TimerFires ==
    /\ screen.timers # <<>>
    /\ screen' = [screen EXCEPT !.deletingHabitId = None,
                                !.opened = 0,
                                !.timers = Tail(@),
                                !.cleared = [timer |-> Head(screen.timers),
                                             confirmation |-> screen.opened]]
    /\ UNCHANGED <<habits, writes, outcome, host, result, storage>>

InitScreen == InitMounted({ArrayOf(<<LegacyBuild, StoredReduce>>)}, {TRUE})

NextScreen ==
    \/ \E habitId \in {habits[i].id : i \in 1..Len(habits)} :
            HandleDeleteHabit(habitId)
    \/ TimerFires

SpecScreen == InitScreen /\ [][NextScreen]_vars

\* The pure queries: one habit in the collection, asked about any date

\* the collection after one addHabit with inputs of I, on a host in any of
\* the time zones
InitProbe(I) ==
    /\ \E name \in I.names, frequency \in I.frequencies, habitType \in I.habitTypes,
          reduceConfig \in I.reduceConfigs, t \in ClockReadings, r \in RandomDraws :
            habits = addHabit(<<>>, name, frequency, habitType, reduceConfig, t, r)
    /\ writes = <<EmptyMap>>
    /\ outcome = "applied"
    /\ host \in HostOffsets
    /\ result = NoResult
    /\ screen = NoScreen
    /\ storage = Mounted(Absent, TRUE, habits)

GetWeekDates(d) ==
    /\ result' = [fn |-> "getWeekDates", date |-> d, value |-> getWeekDates(d, host)]
    /\ UNCHANGED <<habits, writes, outcome, host, storage, screen>>

IsHabitScheduledForDate(i, d) ==
    /\ result' = [fn |-> "isHabitScheduledForDate", habit |-> i, date |-> d,
                  value |-> isHabitScheduledForDate(habits[i], d, host)]
    /\ UNCHANGED <<habits, writes, outcome, host, storage, screen>>

GetReduceTarget(i, d) ==
    /\ \E target \in ReduceTargets(habits[i], d) :
        result' = [fn |-> "getReduceTarget", habit |-> i, date |-> d, value |-> target]
    /\ UNCHANGED <<habits, writes, outcome, host, storage, screen>>

\* toggleCompletion(id) when the clock reads now
ToggleCompletion(id, now) ==
    LET today == getTodayString(now)
    IN  /\ habits' = toggleCompletionForDate(habits, id, today)
        /\ writes' = [i \in 1..Len(habits) |->
                        IF habits[i].id = id
                        THEN MapSet(writes[i], today,
                                    Written("toggle",
                                            FlagValue(~isCompletedOnDate(habits[i], today))))
                        ELSE writes[i]]
        /\ outcome' = Outcome(id)
        /\ storage' = SaveEffect(storage, habits')
        /\ result' = [fn |-> "toggleCompletion", id |-> id, now |-> now]
        /\ UNCHANGED <<host, screen>>

\* getTodaysHabits() when the clock reads now
GetTodaysHabits(now) ==
    LET today == getTodayString(now)
        scheduled(habit) == isHabitScheduledForDate(habit, today, host)
    IN  /\ result' = [fn |-> "getTodaysHabits", now |-> now,
                      value |-> SelectSeq(habits, scheduled)]
        /\ UNCHANGED <<habits, writes, outcome, host, storage, screen>>

\* isCompletedToday(habit) for the habit at position i when the clock reads now
IsCompletedToday(i, now) ==
    LET today == getTodayString(now)
    IN  /\ result' = [fn |-> "isCompletedToday", habit |-> i, now |-> now,
                      value |-> IF Has(habits[i].completions, today)
                                THEN habits[i].completions[today]
                                ELSE FALSE]
        /\ UNCHANGED <<habits, writes, outcome, host, storage, screen>>

InitToday == InitProbe(TodayInputs)

NextToday ==
    \/ \E id \in IdInputs, now \in TodayClocks : ToggleCompletion(id, now)
    \/ \E now \in TodayClocks : GetTodaysHabits(now)
    \/ \E i \in 1..Len(habits), now \in TodayClocks : IsCompletedToday(i, now)

SpecToday == InitToday /\ [][NextToday]_vars

InitCalendar == InitProbe(CalendarInputs)

NextCalendar ==
    \/ \E d \in CalendarInputs.dates : GetWeekDates(d)
    \/ \E i \in 1..Len(habits), d \in CalendarInputs.dates :
            IsHabitScheduledForDate(i, d)

SpecCalendar == InitCalendar /\ [][NextCalendar]_vars

\* the habit form showing the preview for the config of the habit at position i
GenerateSchedulePreview(i) ==
    /\ habits[i].reduceConfig # None
    /\ Get(habits[i].reduceConfig).durationWeeks >= 1
    /\ LET cfg == Get(habits[i].reduceConfig)
           shown == generateSchedulePreview(cfg.startValue, cfg.targetValue,
                                            cfg.durationWeeks)
           values == PreviewTargets(cfg.startValue, cfg.targetValue, cfg.durationWeeks)
       IN  \E v1 \in values[1], v2 \in values[2], v3 \in values[3] :
            result' = [fn |-> "generateSchedulePreview", habit |-> i,
                       value |-> <<[shown[1] EXCEPT !.target = v1],
                                   [shown[2] EXCEPT !.target = v2],
                                   [shown[3] EXCEPT !.target = v3]>>]
    /\ UNCHANGED <<habits, writes, outcome, host, storage, screen>>

InitTarget == InitProbe(TargetInputs)

NextTarget ==
    \/ \E i \in 1..Len(habits), d \in TargetInputs.dates : GetReduceTarget(i, d)
    \/ \E i \in 1..Len(habits) : GenerateSchedulePreview(i)
    \/ \E i \in 1..Len(habits), d \in TargetInputs.dates :
            IsHabitScheduledForDate(i, d)

SpecTarget == InitTarget /\ [][NextTarget]_vars

SpecCounts == InitAnywhere /\ [][NextCounts]_vars

----------------------------------------------------------------------------
\* Vocabulary of the properties

\* the dates the properties look at
ClaimDates == {0, 3}

Positions == 1..Len(habits)

IsReduce(h) == h.habitType = "reduce"

\* the recorded count of date d exists
HasCount(h, d) == h.reduceCompletions # None /\ Has(Get(h.reduceCompletions), d)

\* completions[d] is the flag derived from the recorded count
Derived(h, d) ==
    /\ Has(h.completions, d)
    /\ h.completions[d] = (Get(h.reduceCompletions)[d] <= getReduceTargetForDate(h, d))

\* the last write to date d of habit i was a numeric one, and updateHabit has
\* not changed the habit's type or config since
CountStands(i, d) ==
    /\ LastWrite(i, d).op \in {"set", "adjust"}
    /\ ~LastWrite(i, d).edited

----------------------------------------------------------------------------
\* C1

\* C1 (as claimed): in every reachable state, for every reduce habit and every
\* date with a recorded count, completions[d] = (reduceCompletions[d] <= target).
C1_AlwaysDerived ==
    \A i \in Positions : \A d \in ClaimDates :
        (IsReduce(habits[i]) /\ HasCount(habits[i], d)) => Derived(habits[i], d)

\* C1 (amended): the same, for the dates whose latest write was a
\* setReduceCompletion or adjustReduceCompletion (no toggleCompletionForDate on
\* that date since) and whose habit has had no change of habitType or
\* reduceConfig by updateHabit since that write.
C1_DerivedWhileCountStands ==
    \A i \in Positions : \A d \in ClaimDates :
        (IsReduce(habits[i]) /\ HasCount(habits[i], d) /\ CountStands(i, d))
            => Derived(habits[i], d)

\* a reduce habit holds a count that is within the target and one that is not
C1_Witness ==
    /\ \E i \in Positions : \E d \in ClaimDates :
        /\ IsReduce(habits[i]) /\ HasCount(habits[i], d) /\ CountStands(i, d)
        /\ habits[i].reduceConfig # None
        /\ Get(habits[i].reduceCompletions)[d] > 0
        /\ habits[i].completions[d]
    /\ \E i \in Positions : \E d \in ClaimDates :
        /\ IsReduce(habits[i]) /\ HasCount(habits[i], d) /\ CountStands(i, d)
        /\ ~habits[i].completions[d]

----------------------------------------------------------------------------
\* C2

\* C2 (as claimed): after setReduceCompletion(id, d, value), until the next
\* toggle / set / adjust of that date, isCompletedOnDate(habit, d) equals
\* (value <= target of the habit as it is now), whatever other commands ran.
C2_SetValueDecides ==
    \A i \in Positions : \A d \in ClaimDates :
        LastWrite(i, d).op = "set"
            => (isCompletedOnDate(habits[i], d)
                    = (LastWrite(i, d).value <= getReduceTargetForDate(habits[i], d)))

\* C2 (amended): the same, until the next toggle / set / adjust of that date or
\* the next updateHabit that changes the habit's habitType or reduceConfig.
C2_SetValueDecidesUntilEdited ==
    \A i \in Positions : \A d \in ClaimDates :
        (LastWrite(i, d).op = "set" /\ ~LastWrite(i, d).edited)
            => (isCompletedOnDate(habits[i], d)
                    = (LastWrite(i, d).value <= getReduceTargetForDate(habits[i], d)))

\* a value was set on one habit, and a later command ran on another habit
C2_Witness ==
    \E i, j \in Positions : \E d \in ClaimDates :
        /\ i # j
        /\ LastWrite(i, d).op = "set" /\ ~LastWrite(i, d).edited
        /\ LastWrite(i, d).value = 2
        /\ isCompletedOnDate(habits[i], d)
        /\ LastWrite(j, d).op = "toggle"

----------------------------------------------------------------------------
\* C3

\* C3 (as claimed): every recorded count is >= 0 in every reachable state.
C3_CountsNonNegative ==
    \A i \in Positions :
        habits[i].reduceCompletions # None
            => \A d \in DOMAIN Get(habits[i].reduceCompletions) :
                    Get(habits[i].reduceCompletions)[d] >= 0

----------------------------------------------------------------------------
\* C4

\* C4 (as claimed): for every reduce habit and date, isCompletedOnDate equals
\* (actual <= target), actual being the recorded count or 0 when there is none.
C4_ReadIsDerived ==
    \A i \in Positions : \A d \in ClaimDates :
        IsReduce(habits[i])
            => (isCompletedOnDate(habits[i], d)
                    = (getReduceValue(habits[i], d) <= getReduceTargetForDate(habits[i], d)))

\* C4 (amended): for every reduce habit and date, isCompletedOnDate is false
\* while the date has never been written (a freshly added reduce habit reads as
\* not completed), and equals (recorded count <= target) while the latest write
\* of the date is a numeric one whose count is still recorded and the habit's
\* type and config are unchanged since.
C4_ReadIsStoredFlag ==
    \A i \in Positions : \A d \in ClaimDates :
        IsReduce(habits[i]) =>
            /\ LastWrite(i, d).op = "none" => ~isCompletedOnDate(habits[i], d)
            /\ (CountStands(i, d) /\ HasCount(habits[i], d)) =>
                (isCompletedOnDate(habits[i], d)
                    = (getReduceValue(habits[i], d) <= getReduceTargetForDate(habits[i], d)))

\* a fresh reduce habit: a config, a target >= 0, nothing written for the date
C4_Witness ==
    \E i \in Positions : \E d \in ClaimDates :
        /\ IsReduce(habits[i]) /\ habits[i].reduceConfig # None
        /\ LastWrite(i, d).op = "none"
        /\ ~HasCount(habits[i], d)
        /\ getReduceTargetForDate(habits[i], d) >= 0
        /\ ~isCompletedOnDate(habits[i], d)

----------------------------------------------------------------------------
\* C5

\* the entry of date d is the same in both habits (present or not, and its value)
SameEntry(h1, h2, d) ==
    /\ Has(h1.completions, d) = Has(h2.completions, d)
    /\ Has(h1.completions, d) => h1.completions[d] = h2.completions[d]

\* C5: in every reachable state, toggleCompletionForDate(id, d) on an
\* existing habit flips what isCompletedOnDate reads for d, and called a second
\* time on the result it gives back, for every habit, what isCompletedOnDate
\* read for d before the first call (also when d had no entry) and leaves the
\* entry of every other date as it was.
C5_ToggleTwiceRestores ==
    \A id \in IdInputs : \A d \in ClaimDates :
        Known(id) =>
            LET once == toggleCompletionForDate(habits, id, d)
                twice == toggleCompletionForDate(once, id, d)
            IN  /\ Len(twice) = Len(habits)
                /\ \A i \in Positions :
                    /\ isCompletedOnDate(twice[i], d) = isCompletedOnDate(habits[i], d)
                    /\ \A e \in ClaimDates \ {d} : SameEntry(twice[i], habits[i], e)
                    /\ (habits[i].id = id) =>
                        isCompletedOnDate(once[i], d) # isCompletedOnDate(habits[i], d)

\* a build habit whose cell was toggled on and off again, next to a cell that is on
C5_Witness ==
    \E i \in Positions : \E d, e \in ClaimDates :
        /\ d # e
        /\ habits[i].habitType = "build"
        /\ LastWrite(i, d).op = "toggle"
        /\ Has(habits[i].completions, d) /\ ~habits[i].completions[d]
        /\ isCompletedOnDate(habits[i], e)

----------------------------------------------------------------------------
\* C6

\* C6 (as claimed): a reduce habit has both reduceConfig and reduceCompletions,
\* a build habit has neither, in every reachable state.
C6_TypeDeterminesFields ==
    \A i \in Positions :
        /\ habits[i].habitType = "reduce" =>
            (habits[i].reduceConfig # None /\ habits[i].reduceCompletions # None)
        /\ habits[i].habitType = "build" =>
            (habits[i].reduceConfig = None /\ habits[i].reduceCompletions = None)

----------------------------------------------------------------------------
\* C7

IsBlank(s) == \A k \in 1..Len(s) : s[k] \in WhitespaceChars

\* C7 (as claimed): no habit of the collection has a name that is empty or all
\* whitespace, in every reachable state.
C7_NamesNonBlank == \A i \in Positions : ~IsBlank(habits[i].name)

----------------------------------------------------------------------------
\* C8

\* C8: a step of updateHabit, deleteHabit, renameHabit, toggleCompletionForDate,
\* setReduceCompletion or adjustReduceCompletion with an id that matches no
\* habit leaves the collection as it was: the same habits, fields and order.
C8_UnknownIdChangesNothing ==
    [][\A id \in IdInputs :
        (/\ ~Known(id)
         /\ \/ DeleteHabit(id)
            \/ \E name \in StoreInputs.names, frequency \in StoreInputs.frequencies,
                  habitType \in StoreInputs.habitTypes,
                  reduceConfig \in StoreInputs.reduceConfigs :
                    UpdateHabit(id, name, frequency, habitType, reduceConfig)
            \/ \E newName \in StoreInputs.names : RenameHabit(id, newName)
            \/ \E d \in StoreInputs.dates : ToggleCompletionForDate(id, d)
            \/ \E d \in StoreInputs.dates, value \in StoreInputs.values :
                    SetReduceCompletion(id, d, value)
            \/ \E d \in StoreInputs.dates, delta \in StoreInputs.deltas :
                    AdjustReduceCompletion(id, d, delta))
        => habits' = habits]_vars

\* a command ran with an id that neither of the two habits has
C8_Witness ==
    /\ outcome = "unknown id"
    /\ Len(habits) = 2
    /\ habits[1].id # habits[2].id

----------------------------------------------------------------------------
\* C9

\* C9: in every reachable state, updateHabit on an existing habit replaces
\* name, frequency and habitType; a new type reduce with a config stores the
\* config and keeps the habit's reduceCompletions if it has one, else sets the
\* empty map; a new type build clears reduceConfig and reduceCompletions; so an
\* update to build followed by one back to reduce ends with an empty
\* reduceCompletions.
C9_UpdateReplacesAndResets ==
    \A id \in IdInputs, name \in EditInputs.names,
       frequency \in EditInputs.frequencies, habitType \in EditInputs.habitTypes,
       reduceConfig \in EditInputs.reduceConfigs :
        LET after == updateHabit(habits, id, name, frequency, habitType, reduceConfig)
        IN  /\ Len(after) = Len(habits)
            /\ \A i \in Positions : (habits[i].id = id) =>
                /\ after[i].name = name
                /\ after[i].frequency = frequency
                /\ after[i].habitType = habitType
                /\ (habitType = "reduce" /\ reduceConfig # None) =>
                    /\ after[i].reduceConfig = reduceConfig
                    /\ after[i].reduceCompletions =
                        (IF habits[i].reduceCompletions # None
                         THEN habits[i].reduceCompletions
                         ELSE Some(EmptyMap))
                    /\ LET asBuild == updateHabit(habits, id, name, frequency, "build", None)
                           back == updateHabit(asBuild, id, name, frequency,
                                               "reduce", reduceConfig)
                       IN  back[i].reduceCompletions = Some(EmptyMap)
                /\ habitType = "build" =>
                    /\ after[i].reduceConfig = None
                    /\ after[i].reduceCompletions = None

\* a reduce habit that had a count, was switched away and is a reduce habit
\* again, with a config and no counts
C9_Witness ==
    \E i \in Positions : \E d \in ClaimDates :
        /\ habits[i].habitType = "reduce"
        /\ habits[i].reduceConfig # None
        /\ habits[i].reduceCompletions = Some(EmptyMap)
        /\ LastWrite(i, d).op \in {"set", "adjust"}
        /\ LastWrite(i, d).edited

----------------------------------------------------------------------------
\* C10

\* t is s without its leading and trailing whitespace
StrippedOf(t, s) ==
    /\ t # <<>> => (t[1] \notin WhitespaceChars /\ t[Len(t)] \notin WhitespaceChars)
    /\ \E a, b \in 0..Len(s) :
        /\ a + Len(t) + b = Len(s)
        /\ t = SubSeq(s, a + 1, a + Len(t))
        /\ \A k \in 1..a : s[k] \in WhitespaceChars
        /\ \A k \in (Len(s) - b + 1)..Len(s) : s[k] \in WhitespaceChars

\* C10: renameHabit(id, newName) leaves the collection unchanged when newName
\* is empty or all whitespace; otherwise the habit with that id gets newName
\* without its leading and trailing whitespace as its name, keeps every other
\* field, and the other habits are unchanged.
C10_RenameTrimsOrIgnores ==
    [][\A id \in IdInputs, newName \in NameInputs.names :
        RenameHabit(id, newName) =>
            IF IsBlank(newName)
            THEN habits' = habits
            ELSE /\ Len(habits') = Len(habits)
                 /\ \A i \in Positions :
                        IF habits[i].id = id
                        THEN /\ StrippedOf(habits'[i].name, newName)
                             /\ [habits'[i] EXCEPT !.name = habits[i].name] = habits[i]
                        ELSE habits'[i] = habits[i]]_vars

\* a habit carries a name that only a rename can have produced, and a blank
\* rename was ignored
C10_Witness ==
    /\ \E i \in Positions : habits[i].name = <<"b">>
    /\ outcome = "blank name"

----------------------------------------------------------------------------
\* C11

\* C11: in every reachable state and for every id, deleteHabit(id) gives a
\* collection with no habit of that id in which every habit of another id is
\* still present, unchanged and in its order; deleteHabit(id) on the result, or
\* on a collection that has no habit of that id, changes nothing.
C11_DeleteRemovesOnlyThatId ==
    \A id \in IdInputs :
        LET after == deleteHabit(habits, id)
            others == {i \in Positions : habits[i].id # id}
            removedBefore(i) == Cardinality({k \in 1..i : habits[k].id = id})
        IN  /\ \A j \in 1..Len(after) : after[j].id # id
            /\ Len(after) = Cardinality(others)
            /\ \A i \in others : after[i - removedBefore(i)] = habits[i]
            /\ deleteHabit(after, id) = after
            /\ ~Known(id) => after = habits

\* one of two habits was deleted; the one that is left carries a completion
C11_Witness ==
    /\ outcome = "deleted"
    /\ Len(habits) = 1
    /\ \E d \in ClaimDates : isCompletedOnDate(habits[1], d)

----------------------------------------------------------------------------
\* C12

\* C12: in every reachable state, adjustReduceCompletion(id, d, delta) on a
\* reduce habit stores for d the sum of the stored count (0 when there is none)
\* and delta, or 0 when that sum is negative, however far above the target the
\* sum is; it sets completions[d] to (stored value <= target of d); and a second
\* adjust starts from the value the first one stored.
C12_AdjustRecordsClampedSum ==
    \A id \in IdInputs, d \in ClaimDates, delta \in ReduceInputs.deltas :
        LET once == adjustReduceCompletion(habits, id, d, delta)
        IN  \A i \in Positions : (habits[i].id = id /\ IsReduce(habits[i])) =>
                LET current == IF HasCount(habits[i], d)
                               THEN Get(habits[i].reduceCompletions)[d] ELSE 0
                    stored == IF current + delta < 0 THEN 0 ELSE current + delta
                IN  /\ HasCount(once[i], d)
                    /\ Get(once[i].reduceCompletions)[d] = stored
                    /\ Has(once[i].completions, d)
                    /\ once[i].completions[d]
                            = (stored <= getReduceTargetForDate(habits[i], d))
                    /\ \A delta2 \in ReduceInputs.deltas :
                        LET twice == adjustReduceCompletion(once, id, d, delta2)
                        IN  Get(twice[i].reduceCompletions)[d]
                                = (IF stored + delta2 < 0 THEN 0 ELSE stored + delta2)

\* two adjusts by +1 took a count from 0 above the target of the date
C12_Witness ==
    \E i \in Positions : \E d \in ClaimDates :
        /\ IsReduce(habits[i]) /\ habits[i].reduceConfig # None
        /\ LastWrite(i, d).op = "adjust"
        /\ LastWrite(i, d).value = 2
        /\ HasCount(habits[i], d)
        /\ Get(habits[i].reduceCompletions)[d] = 2
        /\ getReduceTargetForDate(habits[i], d) = 1
        /\ ~isCompletedOnDate(habits[i], d)

----------------------------------------------------------------------------
\* C13

\* the same habit as a build habit
AsBuild(h) == [h EXCEPT !.habitType = "build"]

\* C13: in every reachable state, toggleCompletionForDate(id, d) on a reduce
\* habit gives the completions it gives for the same habit as a build habit
\* (completions[d] flipped, absent read as false) and leaves reduceCompletions
\* and reduceConfig as they were; while the latest write of a date is a toggle,
\* completions[d] is the toggled value, whatever commands ran since on other
\* dates, other habits or the habit's other fields; and a setReduceCompletion or
\* adjustReduceCompletion on the date then replaces it by (count <= target).
C13_ToggleOverridesUntilCounted ==
    /\ \A id \in IdInputs, d \in ClaimDates :
        LET after == toggleCompletionForDate(habits, id, d)
            asBuild == toggleCompletionForDate(
                            [i \in Positions |-> AsBuild(habits[i])], id, d)
        IN  \A i \in Positions : (habits[i].id = id /\ IsReduce(habits[i])) =>
                /\ after[i].completions = asBuild[i].completions
                /\ after[i].completions[d] = ~isCompletedOnDate(habits[i], d)
                /\ after[i].reduceCompletions = habits[i].reduceCompletions
                /\ after[i].reduceConfig = habits[i].reduceConfig
    /\ \A i \in Positions : \A d \in ClaimDates :
        LastWrite(i, d).op = "toggle" =>
            /\ Has(habits[i].completions, d)
            /\ habits[i].completions[d] = (LastWrite(i, d).value = 1)
    /\ \A id \in IdInputs, d \in ClaimDates, value \in 0..(MaxCount + 2) :
        LET counted == setReduceCompletion(habits, id, d, value)
        IN  \A i \in Positions :
                (habits[i].id = id /\ IsReduce(habits[i]) /\ LastWrite(i, d).op = "toggle") =>
                    counted[i].completions[d]
                        = (value <= getReduceTargetForDate(habits[i], d))
    /\ \A id \in IdInputs, d \in ClaimDates, delta \in {-1, 1} :
        LET counted == adjustReduceCompletion(habits, id, d, delta)
        IN  \A i \in Positions :
                (habits[i].id = id /\ IsReduce(habits[i]) /\ LastWrite(i, d).op = "toggle") =>
                    counted[i].completions[d]
                        = (Get(counted[i].reduceCompletions)[d]
                                <= getReduceTargetForDate(habits[i], d))

\* a reduce habit whose count of a date is within the target and whose cell
\* was toggled off afterwards
C13_Witness ==
    \E i \in Positions : \E d \in ClaimDates :
        /\ IsReduce(habits[i]) /\ habits[i].reduceConfig # None
        /\ HasCount(habits[i], d)
        /\ Get(habits[i].reduceCompletions)[d] <= getReduceTargetForDate(habits[i], d)
        /\ LastWrite(i, d).op = "toggle"
        /\ LastWrite(i, d).value = 0
        /\ ~isCompletedOnDate(habits[i], d)

----------------------------------------------------------------------------
\* C14

\* the same habit as a build habit that is scheduled every day
AsDailyBuild(h) == [h EXCEPT !.habitType = "build", !.frequency = Daily]

\* C14: in every reachable state and for every date d,
\* getCompletionCountForDate(d) has total = the number of habits, and
\* completed = that number less the habits whose completions[d] is false and
\* the habits with no entry for d; it is the count of the same collection with
\* every habit turned into a daily build habit (type and schedule play no part).
C14_DateCountIsTrueEntries ==
    \A d \in ClaimDates :
        LET count == getCompletionCountForDate(habits, d)
            explicitFalse == {i \in Positions :
                                Has(habits[i].completions, d) /\ ~habits[i].completions[d]}
            noEntry == {i \in Positions : ~Has(habits[i].completions, d)}
        IN  /\ count.total = Len(habits)
            /\ count.completed
                    = Len(habits) - Cardinality(explicitFalse) - Cardinality(noEntry)
            /\ count = getCompletionCountForDate(
                            [i \in Positions |-> AsDailyBuild(habits[i])], d)

\* a reduce habit completed on a date before it was created (not scheduled
\* then) next to a habit with an explicit false: 1 of 2
C14_Witness ==
    \E i, j \in Positions : \E d \in ClaimDates :
        /\ i # j
        /\ IsReduce(habits[i])
        /\ ~isHabitScheduledForDate(habits[i], d, host)
        /\ Truthy(habits[i], d)
        /\ Has(habits[j].completions, d) /\ ~habits[j].completions[d]
        /\ getCompletionCountForDate(habits, d) = [completed |-> 1, total |-> 2]

----------------------------------------------------------------------------
\* C15

\* the dates the roll-ups are asked about
CountDates == {20, 25, 30, 31, 32}

\* the weekday of calendar day d, 0 = Sunday (1970-01-01 was a Thursday)
WeekdayOf(d) == (d + 4) % 7

\* the Monday on or before calendar day d
MondayOf(d) == d - ((WeekdayOf(d) + 6) % 7)

\* the seven calendar days of the Monday-to-Sunday week that contains d
WeekOf(d) == MondayOf(d)..(MondayOf(d) + 6)

\* C15 (as claimed): in every reachable state, on every host and for every
\* date d, getCompletionCountForWeek(d) has total = the number of habits and
\* completed = the number of habits with completions[x] = true for at least
\* one calendar day x of the Monday-to-Sunday week that contains d.
C15_WeekCountIsCalendarWeek ==
    \A d \in CountDates :
        getCompletionCountForWeek(habits, d, host)
            = [completed |->
                    Cardinality({i \in Positions :
                                    \E x \in WeekOf(d) : Truthy(habits[i], x)}),
               total |-> Len(habits)]

\* the same on the hosts whose clock is not behind UTC
C15_WeekCountEastOfUTC == host >= 0 => C15_WeekCountIsCalendarWeek

----------------------------------------------------------------------------
\* C16

\* the (year, 0-based month) pairs the roll-up is asked about
CountMonths == {<<1970, 0>>, <<1970, 1>>}

\* C16 (as claimed): in every reachable state, on every host and for every
\* year and month, getCompletionCountForMonth(year, month) has total = the
\* number of habits and completed = the number of habits with at least one
\* true completion whose key, read as a calendar date, lies in that month.
C16_MonthCountIsCalendarMonth ==
    \A ym \in CountMonths :
        getCompletionCountForMonth(habits, ym[1], ym[2], host)
            = [completed |->
                    Cardinality({i \in Positions :
                                    \E k \in DOMAIN habits[i].completions :
                                        /\ habits[i].completions[k]
                                        /\ CivilDate(k).year = ym[1]
                                        /\ CivilDate(k).month = ym[2]}),
               total |-> Len(habits)]

\* the same on the hosts whose clock is not behind UTC
C16_MonthCountEastOfUTC == host >= 0 => C16_MonthCountIsCalendarMonth

----------------------------------------------------------------------------
\* C17

\* C17 (as claimed): on every host and for every date d, getWeekDates(d)
\* returns 7 dates, each the day after the one before it, the first a Monday,
\* and d among them.
C17_WeekDatesMondayFirst ==
    result.fn = "getWeekDates" =>
        LET week == result.value
        IN  /\ Len(week) = 7
            /\ \A k \in 1..6 : week[k + 1] = week[k] + 1
            /\ WeekdayOf(week[1]) = 1
            /\ \E k \in 1..7 : week[k] = result.date

\* the same on the hosts whose clock is not behind UTC
C17_WeekDatesEastOfUTC == host >= 0 => C17_WeekDatesMondayFirst

----------------------------------------------------------------------------
\* C20

\* C20 (as claimed): on every host, for a build habit with weekly frequency
\* and every date d, isHabitScheduledForDate(habit, d) is true exactly when
\* weekdays is present and the weekday of calendar date d (0 = Sunday) is one
\* of its elements; with weekdays = [1, 3, 5] that is every Monday, Wednesday
\* and Friday and no other day.
C20_WeeklyFollowsCalendarWeekday ==
    result.fn = "isHabitScheduledForDate" =>
        LET habit == habits[result.habit]
        IN  (habit.habitType = "build" /\ habit.frequency.type = "weekly") =>
                result.value
                    = (/\ habit.frequency.weekdays # None
                       /\ WeekdayOf(result.date) \in Range(Get(habit.frequency.weekdays)))

\* the same on the hosts whose clock is not behind UTC
C20_WeeklyEastOfUTC == host >= 0 => C20_WeeklyFollowsCalendarWeekday

----------------------------------------------------------------------------
\* C18

\* n is an integer nearest to the rational x / y (y > 0)
NearestTo(n, x, y) == 2 * Abs(n * y - x) <= y

\* C18: for every reduce habit with a config (targets below, at and above the
\* start, durations from 0 weeks) and every date, getReduceTargetForDate
\* returns startValue for a date before the creation date; targetValue when the
\* days since creation are >= durationWeeks * 7 (from the creation date on when
\* durationWeeks = 0); and otherwise the larger of targetValue and an integer
\* nearest to startValue - (startValue - targetValue) * days / totalDays.
C18_TargetIsClampedInterpolation ==
    result.fn = "getReduceTarget" =>
        LET habit == habits[result.habit]
        IN  (habit.habitType = "reduce" /\ habit.reduceConfig # None) =>
                LET cfg == Get(habit.reduceConfig)
                    diff == result.date - (habit.createdAt \div MinPerDay)
                    totalDays == cfg.durationWeeks * 7
                    exact == cfg.startValue * totalDays
                                - (cfg.startValue - cfg.targetValue) * diff
                IN  /\ diff < 0 => result.value = cfg.startValue
                    /\ (diff >= 0 /\ diff >= totalDays) => result.value = cfg.targetValue
                    /\ (diff >= 0 /\ diff < totalDays) =>
                        \E n \in (-1)..61 :
                            /\ NearestTo(n, exact, totalDays)
                            /\ result.value = Max(cfg.targetValue, n)

\* a config of 0 weeks whose target is above the start: the target on the
\* creation date itself
C18_Witness ==
    /\ result.fn = "getReduceTarget"
    /\ habits[result.habit].habitType = "reduce"
    /\ habits[result.habit].reduceConfig # None
    /\ Get(habits[result.habit].reduceConfig).durationWeeks = 0
    /\ Get(habits[result.habit].reduceConfig).targetValue
            > Get(habits[result.habit].reduceConfig).startValue
    /\ result.date = habits[result.habit].createdAt \div MinPerDay
    /\ result.value = Get(habits[result.habit].reduceConfig).targetValue

----------------------------------------------------------------------------
\* C19

\* 60 per day down to 0 over four weeks
Config60 == [startValue |-> 60, targetValue |-> 0, durationWeeks |-> 4, unit |-> "mins"]

\* the targets of habit h for the day k days after its creation
TargetsAfter(h, k) == ReduceTargets(h, (h.createdAt \div MinPerDay) + k)

\* C19: for every reduce habit whose config has startValue >= targetValue and
\* durationWeeks >= 1, the targets of the days 0..totalDays after creation
\* start at startValue, end at targetValue, lie within
\* [targetValue, startValue] and never increase from one day to the next; for
\* 60 down to 0 over 4 weeks the target is 60 on day 0, 30 on day 14 and 0 on
\* day 28 and after.
C19_TargetsDescend ==
    \A i \in Positions :
        LET h == habits[i]
        IN  (h.habitType = "reduce" /\ h.reduceConfig # None) =>
                LET cfg == Get(h.reduceConfig)
                    totalDays == cfg.durationWeeks * 7
                IN  (cfg.startValue >= cfg.targetValue /\ cfg.durationWeeks >= 1) =>
                        /\ TargetsAfter(h, 0) = {cfg.startValue}
                        /\ TargetsAfter(h, totalDays) = {cfg.targetValue}
                        /\ \A k \in 0..totalDays : \A v \in TargetsAfter(h, k) :
                                cfg.targetValue <= v /\ v <= cfg.startValue
                        /\ \A k \in 0..(totalDays - 1) :
                                \A v \in TargetsAfter(h, k), w \in TargetsAfter(h, k + 1) :
                                    v >= w
                        /\ cfg = Config60 =>
                                /\ TargetsAfter(h, 14) = {30}
                                /\ TargetsAfter(h, 28) = {0}
                                /\ TargetsAfter(h, 29) = {0}

\* the target of the 60-to-0 habit was read halfway through its four weeks
C19_Witness ==
    /\ result.fn = "getReduceTarget"
    /\ habits[result.habit].reduceConfig = Some(Config60)
    /\ result.date = (habits[result.habit].createdAt \div MinPerDay) + 14
    /\ result.value = 30

----------------------------------------------------------------------------
\* C21

\* C21: on every host, for a build habit with custom frequency every N days
\* (N >= 1) and every date d, isHabitScheduledForDate(habit, d) is true exactly
\* when d is start + k * N for some k >= 0, start being frequency.startDate
\* when present and the calendar day of createdAt otherwise; every 3 days from
\* 2026-01-01 is scheduled on 01-01, 01-04 and 01-07, and not on 01-02, 01-03,
\* 01-05, 01-06 or any day of December 2025.
C21_CustomEveryNDaysFromStart ==
    result.fn = "isHabitScheduledForDate" =>
        LET habit == habits[result.habit]
            frequency == habit.frequency
        IN  (/\ habit.habitType = "build"
             /\ frequency.type = "custom"
             /\ frequency.value # None
             /\ Get(frequency.value) >= 1) =>
                LET start == IF frequency.startDate # None
                             THEN Get(frequency.startDate)
                             ELSE habit.createdAt \div MinPerDay
                    offsets == {0, 3, 6}
                IN  /\ result.value
                            = (\E k \in 0..(result.date - start) :
                                    result.date = start + k * Get(frequency.value))
                    /\ result.date < start => ~result.value
                    /\ (frequency = Custom3From2026 /\ result.date \in Dates2026) =>
                            result.value
                                = (result.date \in {Day20260101 + o : o \in offsets})

\* every 3 days from 2026-01-01: 2026-01-04 is scheduled
C21_Witness ==
    /\ result.fn = "isHabitScheduledForDate"
    /\ habits[result.habit].frequency = Custom3From2026
    /\ result.date = Day20260101 + 3
    /\ result.value

----------------------------------------------------------------------------
\* C22

\* C22: on every host, for a reduce habit (with or without a config) and
\* every date d, isHabitScheduledForDate(habit, d) is true exactly when d is on
\* or after the calendar day of createdAt, whether its frequency is daily,
\* weekly, custom or of an unrecognized type.
C22_ReduceScheduledFromCreation ==
    result.fn = "isHabitScheduledForDate" =>
        LET habit == habits[result.habit]
        IN  habit.habitType = "reduce" =>
                result.value = (result.date >= habit.createdAt \div MinPerDay)

\* a reduce habit with a frequency of an unrecognized type is scheduled on a day
\* after its creation, and one with weekdays 1, 3, 5 on a Sunday
C22_Witness ==
    /\ result.fn = "isHabitScheduledForDate"
    /\ habits[result.habit].habitType = "reduce"
    /\ result.date > habits[result.habit].createdAt \div MinPerDay
    /\ result.value
    /\ \/ habits[result.habit].frequency = Unrecognized
       \/ /\ habits[result.habit].frequency = Weekly135
          /\ WeekdayOf(result.date) = 0

----------------------------------------------------------------------------
\* Persistence

C24_FailedSaveKeepsMutation ==
    [][storage'.writable = storage.writable =>
        IF storage.writable
        THEN /\ storage'.saved
             /\ Load(storage'.item) = habits'
        ELSE /\ ~storage'.saved
             /\ storage'.item = storage.item
             /\ writes' # writes => habits' # habits]_vars

\* a write failed while habits were added and toggled, and a later write has
\* stored both habits
C24_Witness ==
    /\ storage.failed
    /\ storage.saved
    /\ Len(habits) = 2
    /\ \A i \in 1..Len(habits) : habits[i].completions # EmptyMap
    /\ Load(storage.item) = habits

\* the item holds a sequence of habit records
IsHabitSequence(item) ==
    /\ item.kind = "json"
    /\ item.value.type = "array"
    /\ \A k \in 1..Len(item.value.items) :
        /\ item.value.items[k].type = "object"
        /\ "id" \in DOMAIN item.value.items[k].fields

\* C25: construction over an item that is absent, unparseable or not a
\* sequence of habit records gives the empty collection
C25_MalformedItemLoadsEmpty ==
    (outcome = "loaded" /\ ~IsHabitSequence(storage.read)) => habits = <<>>

\* the shapes the code does reject: absent, empty, unparseable, a value that is
\* no array, an array with a null in it
C25_RejectedShapesLoadEmpty ==
    (/\ outcome = "loaded"
     /\ \/ storage.read.kind # "json"
        \/ storage.read.value.type # "array"
        \/ \E k \in 1..Len(storage.read.value.items) :
              storage.read.value.items[k].type = "null")
    => habits = <<>>

\* C26: when the stored array loads, a record without habitType becomes a
\* build habit, a record with habitType keeps it, and every other field of a
\* record is the stored one
C26_MissingHabitTypeLoadsAsBuild ==
    (/\ outcome = "loaded"
     /\ IsHabitSequence(storage.read))
    => /\ Len(habits) = Len(storage.read.value.items)
       /\ \A k \in 1..Len(habits) :
            LET stored == storage.read.value.items[k].fields
                loaded == habits[k]
            IN  /\ loaded.habitType = IF stored.habitType = None
                                      THEN "build"
                                      ELSE Get(stored.habitType)
                /\ loaded.id = stored.id
                /\ loaded.name = stored.name
                /\ loaded.frequency = stored.frequency
                /\ loaded.createdAt = stored.createdAt
                /\ loaded.completions = stored.completions
                /\ loaded.reduceConfig = stored.reduceConfig
                /\ loaded.reduceCompletions = stored.reduceCompletions

\* a record without habitType and a reduce record were stored and are loaded
C26_Witness ==
    /\ outcome = "loaded"
    /\ storage.read = ArrayOf(<<LegacyBuild, StoredReduce>>)
    /\ Len(habits) = 2
    /\ habits[1].habitType = "build"
    /\ habits[1].completions = LegacyBuild.completions
    /\ habits[2].habitType = "reduce"

\* C27: a habit with habitType reduce and no reduceConfig is scheduled by its
\* frequency rule, and setReduceCompletion and adjustReduceCompletion leave
\* the collection as it is
C27_ReduceWithoutConfigIsNotReduce ==
    \A i \in 1..Len(habits) :
        (habits[i].habitType = "reduce" /\ habits[i].reduceConfig = None) =>
            /\ \A d \in 0..6 :
                 isHabitScheduledForDate(habits[i], d, host)
                 = isHabitScheduledForDate(AsBuild(habits[i]), d, host)
            /\ \A d \in PersistInputs.dates, value \in PersistInputs.values :
                 setReduceCompletion(habits, habits[i].id, d, value) = habits
            /\ \A d \in PersistInputs.dates, delta \in PersistInputs.deltas :
                 adjustReduceCompletion(habits, habits[i].id, d, delta) = habits

----------------------------------------------------------------------------
\* Today

\* the habits of the collection scheduled on day d, in order
ScheduledOn(d) ==
    LET scheduled(habit) == isHabitScheduledForDate(habit, d, host)
    IN  SelectSeq(habits, scheduled)

\* C28: toggleCompletion has written under the local date of the host at the
\* moment of the call, getTodaysHabits answers for that date and
\* isCompletedToday reads it
C28_TodayIsLocalDate ==
    /\ result.fn = "toggleCompletion" =>
            \A i \in 1..Len(habits) :
                habits[i].id = result.id =>
                    Has(habits[i].completions, LocalDay(result.now, host))
    /\ result.fn = "getTodaysHabits" =>
            result.value = ScheduledOn(LocalDay(result.now, host))
    /\ result.fn = "isCompletedToday" =>
            result.value = isCompletedOnDate(habits[result.habit],
                                             LocalDay(result.now, host))

\* on a host whose clock is UTC the three agree with the local date
C28_TodayOnUTCHost ==
    host = 0 => C28_TodayIsLocalDate

----------------------------------------------------------------------------
\* Keys and ids

IsLeapYear(year) == (year % 4 = 0 /\ year % 100 # 0) \/ year % 400 = 0

DaysInMonth(year, month) ==
    IF month = 2 THEN (IF IsLeapYear(year) THEN 29 ELSE 28)
    ELSE IF month \in {4, 6, 9, 11} THEN 30
    ELSE 31

\* the fields name a day of the calendar
IsCalendarDate(key) ==
    /\ key.month \in 1..12
    /\ key.day \in 1..DaysInMonth(key.year, key.month)

\* C29: every key of completions and of reduceCompletions names a day of the
\* calendar, whatever date strings the commands were called with
C29_KeysAreCalendarDates ==
    \A i \in 1..Len(habits) :
        /\ \A key \in DOMAIN habits[i].completions : IsCalendarDate(key)
        /\ habits[i].reduceCompletions # None =>
                \A key \in DOMAIN Get(habits[i].reduceCompletions) : IsCalendarDate(key)

\* C30: the ids of the habits in the collection are pairwise distinct
C30_IdsPairwiseDistinct ==
    \A i, j \in 1..Len(habits) : habits[i].id = habits[j].id => i = j

----------------------------------------------------------------------------
\* Frames of the commands

\* the habits of after are those of the collection, position by position, with
\* the id and createdAt they had
KeepsIdentity(after) ==
    /\ Len(after) = Len(habits)
    /\ \A i \in Positions :
        /\ after[i].id = habits[i].id
        /\ after[i].createdAt = habits[i].createdAt

\* C31: in every reachable state, updateHabit (also with another habitType),
\* renameHabit, toggleCompletionForDate, setReduceCompletion and
\* adjustReduceCompletion give every habit the id and createdAt it had, and
\* updateHabit gives it the completions it had
C31_IdAndCreatedAtAreKept ==
    \A id \in IdInputs :
        /\ \A name \in StoreInputs.names, frequency \in StoreInputs.frequencies,
              habitType \in StoreInputs.habitTypes,
              reduceConfig \in StoreInputs.reduceConfigs :
                LET after == updateHabit(habits, id, name, frequency, habitType,
                                         reduceConfig)
                IN  /\ KeepsIdentity(after)
                    /\ \A i \in Positions :
                            after[i].completions = habits[i].completions
        /\ \A newName \in StoreInputs.names :
                KeepsIdentity(renameHabit(habits, id, newName))
        /\ \A d \in StoreInputs.dates :
            /\ KeepsIdentity(toggleCompletionForDate(habits, id, d))
            /\ \A value \in StoreInputs.values :
                    KeepsIdentity(setReduceCompletion(habits, id, d, value))
            /\ \A delta \in StoreInputs.deltas :
                    KeepsIdentity(adjustReduceCompletion(habits, id, d, delta))

\* a habit whose count was written while it was a reduce habit is a build
\* habit now and still has its completions; it was created at the second
\* clock reading
C31_Witness ==
    \E i \in Positions : \E d \in StoreInputs.dates :
        /\ LastWrite(i, d).op \in {"set", "adjust"}
        /\ LastWrite(i, d).edited
        /\ habits[i].habitType = "build"
        /\ Has(habits[i].completions, d)
        /\ habits[i].createdAt = DateTime(2) + 720
        /\ habits[i].id = generateId(DateTime(2) + 720, 0)

\* after holds the same number of habits, each id at the position it had
KeepsPositions(after) ==
    /\ Len(after) = Len(habits)
    /\ \A i \in Positions : after[i].id = habits[i].id

\* after is the collection without some of its habits, the others in the
\* order they had
IsSubsequence(after) ==
    \E kept \in SUBSET Positions :
        /\ Cardinality(kept) = Len(after)
        /\ \A i \in kept :
                after[Cardinality({k \in kept : k <= i})] = habits[i]

\* C32: in every reachable state addHabit gives the collection followed by one
\* new habit with empty completions; updateHabit, renameHabit, toggle, set and
\* adjust keep every habit at its position; deleteHabit gives the collection
\* without the habits of that id, the others in the order they had (one habit
\* fewer when the id is known and no other habit carries it)
C32_InsertionOrderIsKept ==
    /\ \A name \in StoreInputs.names, frequency \in StoreInputs.frequencies,
          habitType \in StoreInputs.habitTypes,
          reduceConfig \in StoreInputs.reduceConfigs,
          t \in ClockReadings, r \in RandomDraws :
            LET after == addHabit(habits, name, frequency, habitType, reduceConfig, t, r)
            IN  /\ Len(after) = Len(habits) + 1
                /\ SubSeq(after, 1, Len(habits)) = habits
                /\ after[Len(after)].completions = EmptyMap
                /\ after[Len(after)].name = name
    /\ \A id \in IdInputs :
        /\ \A name \in StoreInputs.names, frequency \in StoreInputs.frequencies,
              habitType \in StoreInputs.habitTypes,
              reduceConfig \in StoreInputs.reduceConfigs :
                KeepsPositions(updateHabit(habits, id, name, frequency, habitType,
                                           reduceConfig))
        /\ \A newName \in StoreInputs.names :
                KeepsPositions(renameHabit(habits, id, newName))
        /\ \A d \in StoreInputs.dates :
            /\ KeepsPositions(toggleCompletionForDate(habits, id, d))
            /\ \A value \in StoreInputs.values :
                    KeepsPositions(setReduceCompletion(habits, id, d, value))
            /\ \A delta \in StoreInputs.deltas :
                    KeepsPositions(adjustReduceCompletion(habits, id, d, delta))
        /\ LET after == deleteHabit(habits, id)
           IN  /\ IsSubsequence(after)
               /\ \A j \in 1..Len(after) : after[j].id # id
               /\ Cardinality({i \in Positions : habits[i].id = id}) = 1 =>
                    Len(after) = Len(habits) - 1

\* a second habit was added behind one that has a completion: the first is
\* where it was, the new one is last and has no completions
C32_Witness ==
    /\ Len(habits) = 2
    /\ habits[1].id # habits[2].id
    /\ habits[1].completions # EmptyMap
    /\ habits[2].completions = EmptyMap
    /\ writes[2] = EmptyMap
    /\ outcome = "applied"

----------------------------------------------------------------------------
\* Roll-ups

\* C33: on every host, getCompletionCountForMonth has a value whatever keys the
\* completions carry, and it counts a habit exactly when a true completion
\* under a key that parses lies in the month: a key that does not parse
\* matches no month
C33_MonthCountSkipsUnparseableKeys ==
    \A ym \in CountMonths :
        LET count == getCompletionCountForMonth(habits, ym[1], ym[2], host)
            inMonth(k) ==
                /\ getFullYear(DateTime(k), host) = ym[1]
                /\ getMonth(DateTime(k), host) = ym[2]
        IN  /\ count.total = Len(habits)
            /\ count.completed =
                Cardinality({i \in Positions :
                    \E k \in (DOMAIN habits[i].completions) \ {NotADate} :
                        habits[i].completions[k] /\ inMonth(k)})
            /\ count.completed <= count.total

\* one habit is completed only under a key that does not parse, the other
\* also on 1970-02-01
C33_Witness ==
    /\ Len(habits) = 2
    /\ Truthy(habits[1], NotADate)
    /\ ~Truthy(habits[1], 31)
    /\ Truthy(habits[2], NotADate)
    /\ Truthy(habits[2], 31)
    /\ host = 0
    /\ getCompletionCountForMonth(habits, 1970, 1, host).completed = 1

\* C34: in every reachable state, setReduceCompletion and
\* adjustReduceCompletion with the id of a build habit give that habit as it
\* was, without a count and without a new completions entry, and give the
\* whole collection as it was when the id is that of build habits only
C34_BuildHabitIgnoresCounts ==
    \A id \in IdInputs, d \in StoreInputs.dates :
        /\ \A value \in StoreInputs.values :
            LET after == setReduceCompletion(habits, id, d, value)
            IN  /\ \A i \in Positions :
                    (habits[i].id = id /\ habits[i].habitType = "build") =>
                        /\ after[i] = habits[i]
                        /\ after[i].reduceCompletions = None
                /\ (Known(id) /\ ~KnownReduce(id)) => after = habits
        /\ \A delta \in StoreInputs.deltas :
            LET after == adjustReduceCompletion(habits, id, d, delta)
            IN  /\ \A i \in Positions :
                    (habits[i].id = id /\ habits[i].habitType = "build") =>
                        /\ after[i] = habits[i]
                        /\ after[i].reduceCompletions = None
                /\ (Known(id) /\ ~KnownReduce(id)) => after = habits

\* a set or adjust was called with the id of the build habit that stands next
\* to a reduce habit with a count; the build habit has no entry for the date
C34_Witness ==
    /\ outcome = "not a reduce habit"
    /\ Len(habits) = 2
    /\ \E i, j \in Positions : \E d \in StoreInputs.dates :
        /\ habits[i].habitType = "build"
        /\ ~Has(habits[i].completions, d)
        /\ habits[i].reduceCompletions = None
        /\ habits[j].id # habits[i].id
        /\ HasCount(habits[j], d)

\* after has the habits of the collection whose id is not id, each at its
\* position and with all its fields
OtherIdsKept(after, id) ==
    /\ Len(after) = Len(habits)
    /\ \A i \in Positions : habits[i].id # id => after[i] = habits[i]

\* the habit has in after the completion and the count it had on every date
\* but d
OtherDatesKept(before, after, d) ==
    \A x \in ToggleInputs.dates \ {d} :
        /\ Has(after.completions, x) = Has(before.completions, x)
        /\ Has(before.completions, x) => after.completions[x] = before.completions[x]
        /\ HasCount(after, x) = HasCount(before, x)
        /\ HasCount(before, x) =>
                Get(after.reduceCompletions)[x] = Get(before.reduceCompletions)[x]

\* C35: in every reachable state, updateHabit, renameHabit, toggle, set and
\* adjust with an id give every habit of another id as it was, deleteHabit
\* keeps every habit of another id as it was, and toggle, set and adjust for a
\* date give the habit of that id the entries it had for every other date
C35_OtherIdsAndDatesUntouched ==
    \A id \in IdInputs :
        /\ \A name \in ToggleInputs.names, frequency \in ToggleInputs.frequencies,
              habitType \in ToggleInputs.habitTypes,
              reduceConfig \in ToggleInputs.reduceConfigs :
                OtherIdsKept(updateHabit(habits, id, name, frequency, habitType,
                                         reduceConfig), id)
        /\ \A newName \in ToggleInputs.names :
                OtherIdsKept(renameHabit(habits, id, newName), id)
        /\ LET after == deleteHabit(habits, id)
           IN  \A i \in Positions : habits[i].id # id =>
                    \E j \in 1..Len(after) : after[j] = habits[i]
        /\ \A d \in ToggleInputs.dates :
            /\ LET after == toggleCompletionForDate(habits, id, d)
               IN  /\ OtherIdsKept(after, id)
                   /\ \A i \in Positions : OtherDatesKept(habits[i], after[i], d)
            /\ \A value \in ToggleInputs.values :
                LET after == setReduceCompletion(habits, id, d, value)
                IN  /\ OtherIdsKept(after, id)
                    /\ \A i \in Positions : OtherDatesKept(habits[i], after[i], d)
            /\ \A delta \in ToggleInputs.deltas :
                LET after == adjustReduceCompletion(habits, id, d, delta)
                IN  /\ OtherIdsKept(after, id)
                    /\ \A i \in Positions : OtherDatesKept(habits[i], after[i], d)

\* two habits of different ids; a reduce habit has a count on one date and
\* only a toggled completion on the other, the other habit has a completion
C35_Witness ==
    /\ Len(habits) = 2
    /\ habits[1].id # habits[2].id
    /\ \E i, j \in Positions :
        /\ i # j
        /\ LastWrite(i, 0).op \in {"set", "adjust"}
        /\ LastWrite(i, 3).op = "toggle"
        /\ HasCount(habits[i], 0)
        /\ ~HasCount(habits[i], 3)
        /\ Has(habits[i].completions, 3)
        /\ habits[j].completions # EmptyMap

\* C36 (as claimed): in every reachable state, on every host and for every
\* date d, a habit with completions[d] = true is counted by the week roll-up
\* of d and by the month roll-up of the year and month of d, so that
\* day.completed <= week.completed <= total and
\* day.completed <= month.completed <= total.
C36_RollUpsAreConsistent ==
    \A d \in CountInputs.dates :
        LET day == getCompletionCountForDate(habits, d)
            week == getCompletionCountForWeek(habits, d, host)
            month == getCompletionCountForMonth(habits, CivilDate(d).year,
                                                CivilDate(d).month, host)
        IN  /\ day.completed <= week.completed
            /\ week.completed <= week.total
            /\ day.completed <= month.completed
            /\ month.completed <= month.total
            /\ day.total = Len(habits) /\ week.total = Len(habits)
            /\ month.total = Len(habits)

\* the same on the hosts whose clock is not behind UTC
C36_RollUpsEastOfUTC == host >= 0 => C36_RollUpsAreConsistent

\* the part about the week, on every host
C36_DayWithinWeek ==
    \A d \in CountInputs.dates :
        getCompletionCountForDate(habits, d).completed
            <= getCompletionCountForWeek(habits, d, host).completed

----------------------------------------------------------------------------
\* Writes at startup

\* C37 (as claimed): construction alone writes nothing: while no command has
\* run, the item under the key is the item the initializer read, also when it
\* did not load
C37_StartupWritesNothing ==
    outcome = "loaded" => storage.item = storage.read

\* what construction does leave under the key when the medium accepts the
\* write: the text of the collection that was loaded
C37_StartupStoresLoaded ==
    (outcome = "loaded" /\ storage.saved) => storage.item = Serialize(habits)

\* C38 (as claimed): while the earlier hook starts up over a stored collection
\* that is well formed and not empty, the item under the key is at no step
\* the text of the empty collection
C38_StoredNeverEmptied ==
    storage.item # ArrayOf(<<>>)

\* what does hold: the startup that runs to its end on a medium that accepts
\* the writes leaves the stored collection under the key
C38_CompletedStartupRestores ==
    (outcome = "loaded" /\ storage.saved) => storage.item = storage.read

----------------------------------------------------------------------------
\* HomeScreen

\* C39 (as claimed): a timer that clears a pending confirmation is the timer
\* of the click that opened it, never the timer of an earlier click
C39_TimerClearsOwnConfirmation ==
    screen.cleared.confirmation # 0 =>
        screen.cleared.timer = screen.cleared.confirmation

\* the part that holds: a step of HomeScreen removes a habit only when the
\* click is on the habit whose confirmation is pending
C39_DeleteOnlyWhenPending ==
    [][habits' # habits =>
        /\ screen.deletingHabitId # None
        /\ habits' = deleteHabit(habits, Get(screen.deletingHabitId))
        /\ screen'.deletingHabitId = None]_vars

----------------------------------------------------------------------------
\* The habit form

\* the config is one the claim speaks of
IsDescending(cfg) ==
    /\ cfg.startValue > cfg.targetValue
    /\ cfg.targetValue >= 0
    /\ cfg.durationWeeks >= 1

\* C40: for a reduce habit whose config has startValue > targetValue >= 0 and
\* durationWeeks >= 1, the three values of generateSchedulePreview are those
\* of getReduceTargetForDate for the dates 0, floor(totalDays / 2) and
\* totalDays days after the creation date, the same arithmetic giving the same
\* value; and a preview that is shown holds, sample by sample, a value that
\* getReduceTargetForDate can return for that date
C40_PreviewAgreesWithTargets ==
    \A i \in Positions :
        (IsReduce(habits[i]) /\ habits[i].reduceConfig # None
            /\ IsDescending(Get(habits[i].reduceConfig))) =>
        LET cfg == Get(habits[i].reduceConfig)
            created == IsoDate(habits[i].createdAt)
            shown == generateSchedulePreview(cfg.startValue, cfg.targetValue,
                                             cfg.durationWeeks)
            offsets == <<0, (cfg.durationWeeks * 7) \div 2, cfg.durationWeeks * 7>>
        IN  /\ \A k \in 1..3 :
                /\ shown[k].day = offsets[k] + 1
                /\ shown[k].target
                    = getReduceTargetForDate(habits[i], created + offsets[k])
            /\ (result.fn = "generateSchedulePreview" /\ result.habit = i) =>
                \A k \in 1..3 :
                    result.value[k].target
                        \in ReduceTargets(habits[i], created + offsets[k])

\* the preview of 3 down to 0 in 2 weeks is shown; its middle sample, day 8,
\* lies halfway between 1 and 2
C40_Witness ==
    /\ result.fn = "generateSchedulePreview"
    /\ IsReduce(habits[result.habit])
    /\ Get(habits[result.habit].reduceConfig).startValue = 3
    /\ Get(habits[result.habit].reduceConfig).targetValue = 0
    /\ Get(habits[result.habit].reduceConfig).durationWeeks = 2
    /\ result.value[1].target = 3
    /\ result.value[2].day = 8
    /\ result.value[2].target = 1
    /\ result.value[3].target = 0

====
